---- MODULE Spec2Model ----
(***************************************************************************)
(* A model of lato: the dependency registry and parameter resolver         *)
(* (lato/dependency_provider.py), the transaction context with its hooks   *)
(* and middleware chain (lato/transaction_context.py), and the application *)
(* with its module tree (lato/application.py, lato/application_module.py), *)
(* and the composition of handler results (lato/compositon.py).            *)
(*                                                                         *)
(* Specifications:                                                         *)
(*   SpecResolve  one registry; register / update / resolve_func_params    *)
(*   SpecCopy     a heap of registries; register / update / copy           *)
(*   SpecUpdate   one registry; update / copy with their arguments kept    *)
(*   SpecOverride one application; lato.testing.override around a block    *)
(*   SpecCtx      one transaction context, configured by an application or *)
(*                directly, driven by a with-block or by Application.call  *)
(*   SpecApp      several contexts of one application and their registries *)
(*   SpecPub      a module tree with handlers, and publish over it         *)
(*   SpecPubAsync publish_async over handlers with suspension points       *)
(*   SpecExec     execute / execute_async and the composition of results   *)
(*   SpecCompose  the compose function on bounded Python values            *)
(*   SpecSelf     call and publish to functions with a ctx parameter       *)
(*   SpecAlias    a module tree with handlers, and Application.call by     *)
(*                alias                                                    *)
(*   SpecShort    call through middlewares that may not call call_next     *)
(*   SpecEmit     handlers that emit a message on their context            *)
(***************************************************************************)
EXTENDS Integers, Sequences, FiniteSets, TLC

(***************************************************************************)
(* Bounds of the model.                                                    *)
(***************************************************************************)
\* longest positional argument list handed to update / copy / resolve
MaxArgs == 2
\* most dependency providers alive in SpecCopy
MaxProviders == 3
\* longest middleware list
MaxMws == 2
\* most transaction contexts created from one application in SpecApp
MaxCtxs == 2
\* most results handed to compose, and most handlers of one message
MaxResults == 3

(***************************************************************************)
(* Identifiers and values.  A DependencyIdentifier is a name (str) or a    *)
(* type (lato/types.py:6); names and types are disjoint sets of strings.   *)
(***************************************************************************)
Names == {"x", "y"}
Types == {"int", "Num"}
Idents == Names \cup Types
\* dependency values; all of runtime type int
Vals == {1, 2}
\* inspect.Parameter.empty: the annotation of an unannotated parameter
Empty == "empty"
\* the result of an operation that returns nothing, and a missing binding
None == "None"

\* type(value) of a plain dependency value
type(value) == "int"

\* a plain value handed to update(), not wrapped
Plain(value) == [typed |-> FALSE, value |-> value, a_type |-> Empty]

\* as_type(obj, cls): a TypedDependency
as_type(obj, cls) == [typed |-> TRUE, value |-> obj, a_type |-> cls]

\* DependencyProvider._get_type_and_value
get_type_and_value(value) ==
    IF value.typed THEN <<value.a_type, value.value>>
    ELSE <<type(value.value), value.value>>

(***************************************************************************)
(* BasicDependencyProvider: self._dependencies is a dict, here a function  *)
(* whose domain is the set of bound identifiers.                           *)
(***************************************************************************)
EmptyDict == [i \in {} |-> None]

\* d[key] = value on a Python dict
setitem(d, key, value) ==
    [i \in (DOMAIN d) \cup {key} |-> IF i = key THEN value ELSE d[i]]

\* BasicDependencyProvider.register_dependency: both branches store under
\* the identifier itself, so one assignment (overwriting) is the effect
register_dependency(d, identifier, dependency) ==
    setitem(d, identifier, dependency)

\* BasicDependencyProvider.has_dependency
has_dependency(d, identifier) == identifier \in DOMAIN d

\* BasicDependencyProvider.get_dependency; UnknownDependencyError is None
get_dependency(d, identifier) ==
    IF identifier \in DOMAIN d THEN d[identifier] ELSE None

\* class attributes DependencyProvider.allow_names / allow_types
allow_names == TRUE
allow_types == TRUE

\* the first loop of update(): positional values, registered by type
RECURSIVE update_args(_, _)
update_args(d, args) ==
    IF args = <<>> THEN d
    ELSE LET tv == get_type_and_value(Head(args))
         IN  update_args(IF allow_types
                         THEN register_dependency(d, tv[1], tv[2])
                         ELSE d,
                         Tail(args))

\* one iteration of the second loop of update(): name first, then type
update_kwarg(d, name, value) ==
    LET tv == get_type_and_value(value)
        d1 == IF allow_names THEN register_dependency(d, name, tv[2]) ELSE d
    IN  IF allow_types THEN register_dependency(d1, tv[1], tv[2]) ELSE d1

\* the second loop of update(): kwargs is the sequence of kwargs.items()
RECURSIVE update_kwargs(_, _)
update_kwargs(d, kwargs) ==
    IF kwargs = <<>> THEN d
    ELSE update_kwargs(update_kwarg(d, Head(kwargs)[1], Head(kwargs)[2]),
                       Tail(kwargs))

\* update as it would be with the named values registered before the
\* positional ones
update_kwargs_first(d, args, kwargs) == update_args(update_kwargs(d, kwargs), args)

\* DependencyProvider.update(*args, **kwargs)
update(d, args, kwargs) == update_kwargs(update_args(d, args), kwargs)

(***************************************************************************)
(* DependencyProvider.resolve_func_params.  A callable's signature is the  *)
(* sequence of its parameters, each <<name, annotation>>                   *)
(* (get_function_parameters); func_kwargs is a dict (a function).          *)
(***************************************************************************)
\* resolve_param as it would be with the name looked up before the type
resolve_param_name_first(d, param_name, param_type, func_kwargs) ==
    IF param_name \in DOMAIN func_kwargs THEN func_kwargs[param_name]
    ELSE IF has_dependency(d, param_name) THEN get_dependency(d, param_name)
    ELSE IF param_type # Empty /\ has_dependency(d, param_type)
         THEN get_dependency(d, param_type)
    ELSE None

\* one iteration of the loop: the value bound to a parameter, None if none
resolve_param(d, param_name, param_type, func_kwargs) ==
    IF param_name \in DOMAIN func_kwargs THEN func_kwargs[param_name]
    ELSE IF param_type # Empty /\ has_dependency(d, param_type)
         THEN get_dependency(d, param_type)
    ELSE IF has_dependency(d, param_name) THEN get_dependency(d, param_name)
    ELSE None

\* is the parameter bound by that iteration at all
resolve_param_bound(d, param_name, param_type, func_kwargs) ==
    \/ param_name \in DOMAIN func_kwargs
    \/ param_type # Empty /\ has_dependency(d, param_type)
    \/ has_dependency(d, param_name)

\* resolve_func_params as it would be with the loop left at the first
\* parameter that nothing binds
RECURSIVE resolve_until_unbound(_, _, _, _, _, _, _)
resolve_until_unbound(d, func, func_args, func_kwargs, i, arg_idx, resolved_kwargs) ==
    IF i > Len(func) THEN resolved_kwargs
    ELSE
      LET param_name == func[i][1]
          param_type == func[i][2]
      IN  IF arg_idx < Len(func_args)
          THEN resolve_until_unbound(d, func, func_args, func_kwargs, i + 1,
                 arg_idx + 1,
                 setitem(resolved_kwargs, param_name, func_args[arg_idx + 1]))
          ELSE IF resolve_param_bound(d, param_name, param_type, func_kwargs)
          THEN resolve_until_unbound(d, func, func_args, func_kwargs, i + 1,
                 arg_idx,
                 setitem(resolved_kwargs, param_name,
                     resolve_param(d, param_name, param_type, func_kwargs)))
          ELSE resolved_kwargs

\* the loop over func_parameters, from parameter i on, arg_idx consumed
RECURSIVE resolve_from(_, _, _, _, _, _, _)
resolve_from(d, func, func_args, func_kwargs, i, arg_idx, resolved_kwargs) ==
    IF i > Len(func) THEN resolved_kwargs
    ELSE
      LET param_name == func[i][1]
          param_type == func[i][2]
      IN  IF arg_idx < Len(func_args)
          THEN resolve_from(d, func, func_args, func_kwargs, i + 1, arg_idx + 1,
                 setitem(resolved_kwargs, param_name, func_args[arg_idx + 1]))
          ELSE IF resolve_param_bound(d, param_name, param_type, func_kwargs)
          THEN resolve_from(d, func, func_args, func_kwargs, i + 1, arg_idx,
                 setitem(resolved_kwargs, param_name,
                     resolve_param(d, param_name, param_type, func_kwargs)))
          ELSE resolve_from(d, func, func_args, func_kwargs, i + 1, arg_idx,
                            resolved_kwargs)

\* resolve_func_params as it would be with keyword arguments looked at
\* before the positional ones
RECURSIVE resolve_kwargs_first(_, _, _, _, _, _, _)
resolve_kwargs_first(d, func, func_args, func_kwargs, i, arg_idx, resolved_kwargs) ==
    IF i > Len(func) THEN resolved_kwargs
    ELSE
      LET param_name == func[i][1]
          param_type == func[i][2]
      IN  IF param_name \in DOMAIN func_kwargs
          THEN resolve_kwargs_first(d, func, func_args, func_kwargs, i + 1,
                 arg_idx,
                 setitem(resolved_kwargs, param_name, func_kwargs[param_name]))
          ELSE IF arg_idx < Len(func_args)
          THEN resolve_kwargs_first(d, func, func_args, func_kwargs, i + 1,
                 arg_idx + 1,
                 setitem(resolved_kwargs, param_name, func_args[arg_idx + 1]))
          ELSE IF resolve_param_bound(d, param_name, param_type, func_kwargs)
          THEN resolve_kwargs_first(d, func, func_args, func_kwargs, i + 1,
                 arg_idx,
                 setitem(resolved_kwargs, param_name,
                     resolve_param(d, param_name, param_type, func_kwargs)))
          ELSE resolve_kwargs_first(d, func, func_args, func_kwargs, i + 1,
                 arg_idx, resolved_kwargs)

resolve_func_params_kwargs_first(d, func, func_args, func_kwargs) ==
    resolve_kwargs_first(d, func, func_args, func_kwargs, 1, 0, EmptyDict)

\* resolve_func_params as it would be with the keyword arguments that name
\* no parameter handed on
resolve_func_params_all_kwargs(d, func, func_args, func_kwargs) ==
    [n \in DOMAIN func_kwargs
          \cup DOMAIN resolve_from(d, func, func_args, func_kwargs, 1, 0, EmptyDict) |->
        IF n \in DOMAIN resolve_from(d, func, func_args, func_kwargs, 1, 0, EmptyDict)
        THEN resolve_from(d, func, func_args, func_kwargs, 1, 0, EmptyDict)[n]
        ELSE func_kwargs[n]]

\* DependencyProvider.resolve_func_params(func, func_args, func_kwargs)
resolve_func_params(d, func, func_args, func_kwargs) ==
    resolve_from(d, func, func_args, func_kwargs, 1, 0, EmptyDict)

(***************************************************************************)
(* Callables.  A function object is a record: its identity, whether it is  *)
(* a coroutine function (async def), what its body does, and for handlers  *)
(* the signature.  functools.partial keeps the wrapped function's kind, so *)
(* asyncio.iscoroutinefunction of a partial is that of what it wraps.      *)
(***************************************************************************)
iscoroutinefunction(f) == f.async

\* an unset callback (None), and the callbacks an application may set
NoHook == [present |-> FALSE, async |-> FALSE, behav |-> "ok"]
EnterHooks ==
    {[present |-> TRUE, async |-> a, behav |-> b] :
        a \in BOOLEAN, b \in {"ok", "raise"}}
ExitHooks == {[present |-> TRUE, async |-> a, behav |-> "ok"] : a \in BOOLEAN}

\* middleware bodies: "wrap" runs its pre-call code, calls (awaits) call_next,
\* runs its post-call code and returns the result with its mark; "raise"
\* raises from its pre-call code; "return" runs its code and returns its own
\* value without calling call_next; "drop" is "wrap" but returns its own
\* value, not the result of call_next
MwKinds == {[async |-> a, behav |-> b] : a \in BOOLEAN, b \in {"wrap", "raise"}}
Middleware(id, k) == [id |-> id, async |-> k.async, behav |-> k.behav]

\* handler functions: "ok" returns a value, "raise" raises, "suspend" (of a
\* coroutine function) awaits something that suspends it, is resumed and
\* returns a value; "read", "emit" and "emit_read" take the context as ctx,
\* read its current_action and emit a message on it
Function(id, async, behav, sig) ==
    [id |-> id, async |-> async, behav |-> behav, sig |-> sig]
NoFn == Function(0, FALSE, "ok", <<>>)
HandlerFns ==
    {Function(0, a, b, <<>>) : a \in BOOLEAN, b \in {"ok", "raise"}}

\* id(obj) of a TransactionContext and of a published message: the values
\* under which the objects are bound in a registry
id_ctx(c) == 100 + c

\* one frame of a composed call_next: partial(m, self, call_next) is the
\* middleware's layer put in front of the layers of call_next
Layer(kind, f) == [kind |-> kind, id |-> f.id, async |-> f.async, behav |-> f.behav]
MaybeAwait == [kind |-> "maybe_await", id |-> 0, async |-> TRUE, behav |-> "wrap"]

\* partial(func, **resolved_kwargs): the innermost call_next, the function
\* with the keyword arguments it will be called with
Partial(func, resolved_kwargs) ==
    [kind |-> "func", id |-> func.id, async |-> func.async, behav |-> func.behav,
     sig |-> func.sig, kwargs |-> resolved_kwargs]

\* Python's binding of the keyword arguments of a call to the parameters
\* of the function, none of which has a default: every parameter is given
\* and every keyword names a parameter, or the call raises TypeError
binds(f) == DOMAIN f.kwargs = {f.sig[i][1] : i \in 1..Len(f.sig)}

\* what the bodies of hooks, middlewares and handlers leave in the log
Event(ev, id, exc) == [ev |-> ev, id |-> id, exc |-> exc]

(***************************************************************************)
(* ApplicationModule: _handlers maps an alias to the ordered set of its    *)
(* handlers, _submodules is an ordered set of modules.                     *)
(***************************************************************************)
ModuleNames == {"app", "A", "B", "C"}
Aliases == {"SampleEvent"}

\* ApplicationModule.__init__
ApplicationModule == [handlers |-> EmptyDict, submodules |-> <<>>]

\* OrderedSet.add: a new item goes last, a present one keeps its place
add(s, item) == IF \E i \in 1..Len(s) : s[i] = item THEN s ELSE Append(s, item)

\* ApplicationModule.include_submodule
include_submodule(m, a_module) == [m EXCEPT !.submodules = add(@, a_module)]

\* ApplicationModule.handler(alias)(func); _handlers is a defaultdict
handler(m, alias, func) ==
    [m EXCEPT !.handlers =
        setitem(@, alias, add(IF alias \in DOMAIN @ THEN @[alias] ELSE <<>>, func))]

\* ApplicationModule.iterate_handlers_for: the module's own handlers, then
\* those of each submodule, recursively; it yields the registered functions
RECURSIVE iterate_handlers_for(_, _, _)
RECURSIVE iterate_submodules(_, _, _)
iterate_handlers_for(ms, name, alias) ==
    (IF alias \in DOMAIN ms[name].handlers THEN ms[name].handlers[alias] ELSE <<>>)
    \o iterate_submodules(ms, ms[name].submodules, alias)

iterate_submodules(ms, subs, alias) ==
    IF Len(subs) = 0 THEN <<>>
    ELSE iterate_handlers_for(ms, Head(subs), alias)
         \o iterate_submodules(ms, Tail(subs), alias)

\* what a handlers iterator yields: a registered function as it is, or a
\* MessageHandler(source, message, fn) built by the caller's own iterator
FunctionItem(fn) == [kind |-> "function", source |-> "", message |-> "", fn |-> fn]
MessageHandler(source, message, fn) ==
    [kind |-> "descriptor", source |-> source, message |-> message, fn |-> fn]
NoHandler == [kind |-> "none", source |-> "", message |-> "", fn |-> NoFn]

(***************************************************************************)
(* Application and TransactionContext objects.                             *)
(***************************************************************************)
\* the attribute transaction_context of an Application: the method of the
\* class, or the closure that lato.testing.override_ctx puts in its place,
\* which holds the overrides
BoundMethod == [overridden |-> FALSE, args |-> <<>>, kwargs |-> <<>>]
Closure(args, kwargs) == [overridden |-> TRUE, args |-> args, kwargs |-> kwargs]

\* Application.__init__ with provider dp
Application(dp) ==
    [dependency_provider |-> dp,
     on_enter |-> NoHook,
     on_exit |-> NoHook,
     transaction_middlewares |-> <<>>,
     composers |-> EmptyDict,
     transaction_context |-> BoundMethod]

\* a reference to a middleware list: the application's list object, or a
\* list of the caller's own
AppList == [shared |-> TRUE, own |-> <<>>]
OwnList(l) == [shared |-> FALSE, own |-> l]

\* a reference to a dict of composers (alias -> composer): the application's
\* dict object, or a dict of the caller's own; a composer is a function of
\* the caller's, known by its id
AppDict == [shared |-> TRUE, own |-> EmptyDict]
OwnDict(d) == [shared |-> FALSE, own |-> d]
Composer(id) == [id |-> id]

\* a handlers iterator: none, the application's bound iterate_handlers_for,
\* or a function of the caller's that yields the given MessageHandlers
NoIterator == [kind |-> "none", items |-> <<>>]
AppIterator == [kind |-> "app", items |-> <<>>]
ListIterator(items) == [kind |-> "list", items |-> items]

\* TransactionContext.__init__ with provider dp; beside the attributes, a
\* context records where its with statement stands (pc: created, entered,
\* called, exited, or failed when entering raised), the context manager
\* used (cm), what the block raised (exc) and returned (result), what the
\* with statement raised to its caller (raised), and the log of the bodies
\* of its callbacks, middlewares and handlers
TransactionContext(dp) ==
    [dependency_provider |-> dp,
     resolved_kwargs |-> EmptyDict,
     current_handler |-> NoHandler,
     on_enter |-> NoHook,
     on_exit |-> NoHook,
     middlewares |-> OwnList(<<>>),
     composers |-> OwnDict(EmptyDict),
     handlers_iterator |-> NoIterator,
     pc |-> "created",
     cm |-> "none",
     exc |-> None,
     result |-> <<>>,
     raised |-> None,
     log |-> <<>>]

\* the list a reference points to, given the application's list
list_of(ref, app_list) == IF ref.shared THEN app_list ELSE ref.own

\* the dict a reference points to, given the application's dict
dict_of(ref, app_dict) == IF ref.shared THEN app_dict ELSE ref.own

\* TransactionContext.configure: every argument that is truthy replaces
\* the attribute; an empty list or dict is not, and leaves the context's own
configure(ctx, on_enter, on_exit, middlewares, app_list, composers, app_dict, handlers_iterator) ==
    [ctx EXCEPT
        !.on_enter = IF on_enter.present THEN on_enter ELSE @,
        !.on_exit = IF on_exit.present THEN on_exit ELSE @,
        !.middlewares = IF Len(list_of(middlewares, app_list)) > 0
                        THEN middlewares ELSE @,
        !.composers = IF DOMAIN dict_of(composers, app_dict) # {}
                      THEN composers ELSE @,
        !.handlers_iterator = IF handlers_iterator.kind # "none"
                              THEN handlers_iterator ELSE @]

\* Application.transaction_middleware as it would be with the new
\* middleware put last
transaction_middleware_append(middlewares, middleware_func) ==
    Append(middlewares, middleware_func)

\* Application.transaction_middleware: insert(0, middleware_func)
transaction_middleware(middlewares, middleware_func) ==
    <<middleware_func>> \o middlewares

(***************************************************************************)
(* State.                                                                  *)
(*   heap   the dict objects allocated so far (heap[k] is dict object k)   *)
(*   prov   prov[p] is the dict object that provider p holds as            *)
(*          self._dependencies                                             *)
(*   ret    the last operation performed and what it returned              *)
(*   app    the Application object: its provider, hooks and middleware list *)
(*   modules  the ApplicationModule objects: handlers and submodules       *)
(*   ctxs   the TransactionContext objects created so far                  *)
(***************************************************************************)
VARIABLES heap, prov, ret, app, modules, ctxs

(***************************************************************************)
(* Running a context.  A world w is a context together with the dict of    *)
(* its provider; every operation returns the world it leaves, its result   *)
(* and the exception it raises (None when it returns).                     *)
(***************************************************************************)
World(ctx, d) == [ctx |-> ctx, d |-> d]

\* the value of a one-element set: Only({e(x) : x \in {v}}) is e(v) with v
\* computed once
Only(S) == CHOOSE x \in S : TRUE
Outcome(w, result, exc) == [w |-> w, result |-> result, exc |-> exc]
Logged(w, e) == [w EXCEPT !.ctx.log = Append(@, e)]

\* the bodies of the enter and exit callbacks
call_hook(w, ev, hook, exception) ==
    Outcome(Logged(w, Event(ev, 0, exception)), <<>>,
            IF hook.behav = "raise" THEN "HookError" ELSE None)

\* TransactionContext.begin
begin(w) ==
    IF w.ctx.on_enter.present
    THEN IF iscoroutinefunction(w.ctx.on_enter)
         THEN Outcome(w, <<>>, "ValueError")
         ELSE call_hook(w, "enter", w.ctx.on_enter, None)
    ELSE Outcome(w, <<>>, None)

\* TransactionContext.begin_async: calls the callback, awaits a coroutine
begin_async(w) ==
    IF w.ctx.on_enter.present
    THEN call_hook(w, "enter", w.ctx.on_enter, None)
    ELSE Outcome(w, <<>>, None)

\* TransactionContext.end as it would be with the callback left out when
\* the block raised
end_unless_raised(w, exception) ==
    IF w.ctx.on_exit.present /\ exception = None
    THEN IF iscoroutinefunction(w.ctx.on_exit)
         THEN Outcome(w, <<>>, "ValueError")
         ELSE call_hook(w, "exit", w.ctx.on_exit, exception)
    ELSE Outcome(w, <<>>, None)

\* TransactionContext.end
end(w, exception) ==
    IF w.ctx.on_exit.present
    THEN IF iscoroutinefunction(w.ctx.on_exit)
         THEN Outcome(w, <<>>, "ValueError")
         ELSE call_hook(w, "exit", w.ctx.on_exit, exception)
    ELSE Outcome(w, <<>>, None)

\* TransactionContext.end_async
end_async(w, exception) ==
    IF w.ctx.on_exit.present
    THEN call_hook(w, "exit", w.ctx.on_exit, exception)
    ELSE Outcome(w, <<>>, None)

\* __enter__ / __aenter__ of the context manager cm
enter(w, cm) == IF cm = "with" THEN begin(w) ELSE begin_async(w)

\* __exit__ / __aexit__: they return None, so exc_val is raised again after
\* them, unless end itself raises
exit(w, cm, exc_val) ==
    Only({Outcome(r.w, <<>>, IF r.exc # None THEN r.exc ELSE exc_val) :
            r \in {IF cm = "with" THEN end(w, exc_val) ELSE end_async(w, exc_val)}})

\* the messages a block publishes, the message a handler emits, and id(obj)
\* of them
MessageList ==
    << [instance |-> TRUE, alias |-> "SampleEvent"],
       [instance |-> FALSE, alias |-> "SampleEvent"] >>
Messages == {MessageList[i] : i \in 1..Len(MessageList)}
NoMessage == [instance |-> FALSE, alias |-> ""]
Emitted == [instance |-> FALSE, alias |-> "sample_event"]
id_message(message) ==
    200 + (CHOOSE i \in 1..Len(MessageList) + 1 : (MessageList \o <<Emitted>>)[i] = message)

\* TransactionContext.current_action
current_action(w) == <<get_dependency(w.d, "message"), w.ctx.current_handler>>

\* a handler's read of ctx.current_action, left in the log: the message,
\* and the function of the handler; an unbound message is an error
reading(w, f) ==
    IF ~has_dependency(w.d, "message")
    THEN Outcome(w, <<>>, "UnknownDependencyError")
    ELSE Outcome(Logged(Logged(w, Event("message", current_action(w)[1], None)),
                        Event("current_handler", current_action(w)[2].fn.id, None)),
                 <<f.id>>, None)

\* the body of a function that is neither a handler reading or emitting
\* nor a middleware: it returns its value, raises, or is suspended first
returning(w, f) ==
    Outcome(IF f.behav = "suspend"
            THEN Logged(Logged(Logged(w, Event("handler", f.id, None)),
                               Event("suspended", f.id, None)),
                        Event("resumed", f.id, None))
            ELSE Logged(w, Event("handler", f.id, None)),
            IF f.behav = "raise" THEN <<>> ELSE <<f.id>>,
            IF f.behav = "raise" THEN "HandlerError" ELSE None)

\* call_next() as it would be if a middleware that returns without calling
\* its call_next had what it wraps run all the same
RECURSIVE run_through(_, _, _)
run_through(w, chain, i) ==
    LET f == chain[i]
    IN  IF f.kind = "func" /\ ~binds(f)
        THEN Outcome(w, <<>>, "TypeError")
        ELSE IF f.kind = "func"
        THEN returning(w, f)
        ELSE IF f.kind = "maybe_await"
        THEN run_through(w, chain, i + 1)
        ELSE IF f.behav = "raise"
        THEN Outcome(Logged(w, Event("pre", f.id, None)), <<>>, "MiddlewareError")
        ELSE Only({IF r.exc # None THEN r
                   ELSE Outcome(Logged(r.w, Event("post", f.id, None)),
                                IF f.behav = "wrap" THEN <<f.id>> \o r.result
                                ELSE <<f.id>>, None) :
                     r \in {run_through(Logged(w, Event("pre", f.id, None)), chain,
                                        i + 1)}})

\* the body of a handler with a parameter ctx that reads ctx.current_action
\* ("read"), emits a message on ctx and returns ("emit"), or reads, emits
\* and reads again ("emit_read"); ctx.emit is ctx.publish, and what the
\* handler was given as ctx has these attributes only if it is a context
RECURSIVE publish(_, _, _, _, _)
emitting(w, f) ==
    IF \A c \in 1..Len(ctxs) + 1 : f.kwargs["ctx"] # id_ctx(c)
    THEN Outcome(Logged(w, Event("handler", f.id, None)), <<>>, "AttributeError")
    ELSE
    Only({IF f.behav = "read" \/ begun.exc # None THEN begun
          ELSE Only({IF r.exc # None THEN Outcome(r.w, <<>>, r.exc)
                     ELSE IF f.behav = "emit"
                     THEN Outcome(Logged(r.w, Event("handler_end", f.id, None)),
                                  <<f.id>>, None)
                     ELSE reading(Logged(r.w, Event("handler_end", f.id, None)), f) :
                       r \in {publish(begun.w,
                                      list_of(w.ctx.middlewares,
                                              app.transaction_middlewares),
                                      CHOOSE c \in 1..Len(ctxs) + 1 :
                                          f.kwargs["ctx"] = id_ctx(c),
                                      modules, Emitted)}}) :
            begun \in {IF f.behav = "emit"
                       THEN Outcome(Logged(w, Event("handler", f.id, None)), <<>>, None)
                       ELSE reading(Logged(w, Event("handler", f.id, None)), f)}})

\* call_next(): runs layer i of a composed chain and what it wraps
RECURSIVE run(_, _, _)
run(w, chain, i) ==
    LET f == chain[i]
    IN  IF f.kind = "func" /\ ~binds(f)
        THEN Outcome(w, <<>>, "TypeError")
        ELSE IF f.kind = "func" /\ f.behav \in {"read", "emit", "emit_read"}
        THEN emitting(w, f)
        ELSE IF f.kind = "func"
        THEN returning(w, f)
        ELSE IF f.kind = "maybe_await"
        THEN run(w, chain, i + 1)
        ELSE IF f.behav = "raise"
        THEN Outcome(Logged(w, Event("pre", f.id, None)), <<>>, "MiddlewareError")
        ELSE IF f.behav = "return"
        THEN Outcome(Logged(w, Event("pre", f.id, None)), <<f.id>>, None)
        ELSE Only({IF r.exc # None THEN r
                   ELSE Outcome(Logged(r.w, Event("post", f.id, None)),
                                IF f.behav = "wrap" THEN <<f.id>> \o r.result
                                ELSE <<f.id>>, None) :
                     r \in {run(Logged(w, Event("pre", f.id, None)), chain, i + 1)}})

\* self._middlewares[::-1] as it would be without the reversal
reversed_not(s) == s

\* self._middlewares[::-1]
reversed(s) == [i \in 1..Len(s) |-> s[Len(s) + 1 - i]]

\* the loop of call over the reversed middlewares ms still to wrap
RECURSIVE call_wrap(_, _)
call_wrap(ms, call_next) ==
    IF Len(ms) = 0 THEN [exc |-> None, call_next |-> call_next]
    ELSE IF iscoroutinefunction(Head(ms))
    THEN [exc |-> "TypeError", call_next |-> call_next]
    ELSE call_wrap(Tail(ms), <<Layer("mw", Head(ms))>> \o call_next)

\* the loop of call_async as it would be with the check of call: every
\* coroutine middleware rejected, no continuation looked at
call_async_wrap_as_call(ms, call_next) == call_wrap(ms, call_next)

\* the loop of call_async over the reversed middlewares ms still to wrap
RECURSIVE call_async_wrap(_, _)
call_async_wrap(ms, call_next) ==
    IF Len(ms) = 0 THEN [exc |-> None, call_next |-> call_next]
    ELSE
      Only({IF ~iscoroutinefunction(Head(ms)) /\ iscoroutinefunction(awaitable[1])
            THEN [exc |-> "TypeError", call_next |-> awaitable]
            ELSE call_async_wrap(Tail(ms), <<Layer("mw", Head(ms))>> \o awaitable) :
              awaitable \in
                {IF iscoroutinefunction(Head(ms)) /\ ~iscoroutinefunction(call_next[1])
                 THEN <<MaybeAwait>> \o call_next
                 ELSE call_next}})

\* dict.update
dict_update(d, e) ==
    [i \in (DOMAIN d) \cup (DOMAIN e) |-> IF i \in DOMAIN e THEN e[i] ELSE d[i]]

\* the start of call as it would be without the binding of ctx
resolved_unbound(w, self, func, func_args, func_kwargs) ==
    World([w.ctx EXCEPT !.resolved_kwargs =
              dict_update(@, resolve_func_params(w.d, func.sig, func_args,
                                                 func_kwargs))],
          w.d)

\* the common start of call and call_async: bind ctx, resolve, remember
resolved(w, self, func, func_args, func_kwargs) ==
    Only({World([w.ctx EXCEPT !.resolved_kwargs =
                    dict_update(@, resolve_func_params(d, func.sig, func_args,
                                                       func_kwargs))],
                d) :
            d \in {update(w.d, <<>>,
                     << <<"ctx", as_type(id_ctx(self), "TransactionContext")>> >>)}})

\* TransactionContext.call as it would be without the check of func
call_unchecked(w, mws, self, func, func_args, func_kwargs) ==
    Only({IF composed.exc # None THEN Outcome(w1, <<>>, composed.exc)
          ELSE run(w1, composed.call_next, 1) :
            w1 \in {resolved(w, self, func, func_args, func_kwargs)},
            composed \in {call_wrap(reversed(mws), <<Partial(func,
                  resolve_func_params(resolved(w, self, func, func_args, func_kwargs).d,
                                      func.sig, func_args, func_kwargs))>>)}})

\* TransactionContext.call of context self with middleware list mws
call(w, mws, self, func, func_args, func_kwargs) ==
    IF iscoroutinefunction(func) THEN Outcome(w, <<>>, "TypeError")
    ELSE
      Only({IF composed.exc # None THEN Outcome(w1, <<>>, composed.exc)
            ELSE run(w1, composed.call_next, 1) :
              w1 \in {resolved(w, self, func, func_args, func_kwargs)},
              composed \in {call_wrap(reversed(mws), <<Partial(func,
                  resolve_func_params(resolved(w, self, func, func_args, func_kwargs).d,
                                      func.sig, func_args, func_kwargs))>>)}})

\* call_async as it would be if it took coroutine functions only
call_async_only(w, mws, self, func, func_args, func_kwargs) ==
    IF ~iscoroutinefunction(func) THEN Outcome(w, <<>>, "TypeError")
    ELSE
      Only({IF composed.exc # None THEN Outcome(w1, <<>>, composed.exc)
            ELSE run(w1, composed.call_next, 1) :
              w1 \in {resolved(w, self, func, func_args, func_kwargs)},
              composed \in {call_async_wrap(reversed(mws), <<Partial(func,
                  resolve_func_params(resolved(w, self, func, func_args, func_kwargs).d,
                                      func.sig, func_args, func_kwargs))>>)}})

\* TransactionContext.call_async; awaiting or calling call_next runs it
call_async(w, mws, self, func, func_args, func_kwargs) ==
    Only({IF composed.exc # None THEN Outcome(w1, <<>>, composed.exc)
          ELSE run(w1, composed.call_next, 1) :
            w1 \in {resolved(w, self, func, func_args, func_kwargs)},
            composed \in {call_async_wrap(reversed(mws), <<Partial(func,
                  resolve_func_params(resolved(w, self, func, func_args, func_kwargs).d,
                                      func.sig, func_args, func_kwargs))>>)}})

(***************************************************************************)
(* Messages and publish.  A message is an instance of a Message class, its *)
(* alias being the class, or a string that is the alias itself.            *)
(***************************************************************************)
\* self._handlers_iterator(message_type) of a context, over the modules ms
handlers_iterator(ctx, ms, alias) ==
    IF ctx.handlers_iterator.kind = "app"
    THEN LET fns == iterate_handlers_for(ms, "app", alias)
         IN  [i \in 1..Len(fns) |-> FunctionItem(fns[i])]
    ELSE IF ctx.handlers_iterator.kind = "list"
    THEN SelectSeq(ctx.handlers_iterator.items, LAMBDA h : h.message = alias)
    ELSE <<>>

\* all_results[handler] = result on the OrderedDict of publish
set_result(all_results, h, result) ==
    IF \E i \in 1..Len(all_results) : all_results[i].handler = h
    THEN [i \in 1..Len(all_results) |->
            IF all_results[i].handler = h
            THEN [handler |-> h, result |-> result] ELSE all_results[i]]
    ELSE Append(all_results, [handler |-> h, result |-> result])

\* the loop of publish_async as it would be with the calls gathered: every
\* handler is started and runs up to where it is suspended, then each is
\* resumed
RECURSIVE publish_from_gathered(_, _, _, _, _, _, _, _)
publish_from_gathered(w, mws, self, message, items, i, all_results, mode) ==
    IF i > Len(items)
    THEN Outcome([w EXCEPT !.ctx.log =
                     SelectSeq(@, LAMBDA e : e.ev \notin {"resumed", "post"})
                     \o SelectSeq(@, LAMBDA e : e.ev \in {"resumed", "post"})],
                 all_results, None)
    ELSE
      LET h == items[i]
          w1 == World([w.ctx EXCEPT !.current_handler =
                                      IF mode = "sync" THEN h ELSE NoHandler],
                      register_dependency(w.d, "message", id_message(message)))
          args == IF message.instance THEN <<id_message(message)>> ELSE <<>>
      IN  IF h.kind # "descriptor" THEN Outcome(w1, <<>>, "AttributeError")
          ELSE Only({IF r.exc # None THEN Outcome(r.w, <<>>, r.exc)
                     ELSE publish_from_gathered(
                              r.w, mws, self, message, items, i + 1,
                              set_result(all_results, h, r.result), mode) :
                       r \in {IF mode = "sync"
                              THEN call(w1, mws, self, h.fn, args, EmptyDict)
                              ELSE call_async(w1, mws, self, h.fn, args, EmptyDict)}})

\* the loop of publish as it would be with "message" bound once, before
\* the first handler
RECURSIVE publish_from_bound_once(_, _, _, _, _, _, _, _)
publish_from_bound_once(w, mws, self, message, items, i, all_results, mode) ==
    IF i > Len(items) THEN Outcome(w, all_results, None)
    ELSE
      LET h == items[i]
          w1 == World([w.ctx EXCEPT !.current_handler =
                                      IF mode = "sync" THEN h ELSE NoHandler],
                      IF i = 1
                      THEN register_dependency(w.d, "message", id_message(message))
                      ELSE w.d)
          args == IF message.instance THEN <<id_message(message)>> ELSE <<>>
      IN  IF h.kind # "descriptor" THEN Outcome(w1, <<>>, "AttributeError")
          ELSE Only({IF r.exc # None THEN Outcome(r.w, <<>>, r.exc)
                     ELSE publish_from_bound_once(
                              r.w, mws, self, message, items, i + 1,
                              set_result(all_results, h, r.result), mode) :
                       r \in {IF mode = "sync"
                              THEN call(w1, mws, self, h.fn, args, EmptyDict)
                              ELSE call_async(w1, mws, self, h.fn, args, EmptyDict)}})

\* the loop of publish as it would be with the errors of the handlers
\* caught and the loop going on
RECURSIVE publish_from_keep_going(_, _, _, _, _, _, _, _)
publish_from_keep_going(w, mws, self, message, items, i, all_results, mode) ==
    IF i > Len(items) THEN Outcome(w, all_results, None)
    ELSE
      LET h == items[i]
          w1 == World([w.ctx EXCEPT !.current_handler =
                                      IF mode = "sync" THEN h ELSE NoHandler],
                      register_dependency(w.d, "message", id_message(message)))
          args == IF message.instance THEN <<id_message(message)>> ELSE <<>>
      IN  IF h.kind # "descriptor" THEN Outcome(w1, <<>>, "AttributeError")
          ELSE Only({publish_from_keep_going(
                         r.w, mws, self, message, items, i + 1,
                         IF r.exc # None THEN all_results
                         ELSE set_result(all_results, h, r.result), mode) :
                       r \in {IF mode = "sync"
                              THEN call(w1, mws, self, h.fn, args, EmptyDict)
                              ELSE call_async(w1, mws, self, h.fn, args, EmptyDict)}})

\* the loop of publish (mode "sync") and of publish_async (mode "async")
\* from item i on: bind "message", set current_handler, read handler.fn,
\* call it; a registered function has no attribute fn
RECURSIVE publish_from(_, _, _, _, _, _, _, _)
publish_from(w, mws, self, message, items, i, all_results, mode) ==
    IF i > Len(items) THEN Outcome(w, all_results, None)
    ELSE
      LET h == items[i]
          w1 == World([w.ctx EXCEPT !.current_handler =
                                      IF mode = "sync" THEN h ELSE NoHandler],
                      register_dependency(w.d, "message", id_message(message)))
          args == IF message.instance THEN <<id_message(message)>> ELSE <<>>
      IN  IF h.kind # "descriptor" THEN Outcome(w1, <<>>, "AttributeError")
          ELSE Only({IF r.exc # None THEN Outcome(r.w, <<>>, r.exc)
                     ELSE publish_from(r.w, mws, self, message, items, i + 1,
                                       set_result(all_results, h, r.result), mode) :
                       r \in {IF mode = "sync"
                              THEN call(w1, mws, self, h.fn, args, EmptyDict)
                              ELSE call_async(w1, mws, self, h.fn, args, EmptyDict)}})

\* TransactionContext.publish
publish(w, mws, self, ms, message) ==
    publish_from(w, mws, self, message,
                 handlers_iterator(w.ctx, ms, message.alias), 1, <<>>, "sync")

\* TransactionContext.publish_async
publish_async(w, mws, self, ms, message) ==
    publish_from(w, mws, self, message,
                 handlers_iterator(w.ctx, ms, message.alias), 1, <<>>, "async")

(***************************************************************************)
(* The result composer (lato/compositon.py).  A Python value is a record:  *)
(* its type t and, by the type, a number n (bool as 0 / 1), a string s or  *)
(* a flat dict d from keys to values.                                      *)
(***************************************************************************)
PyValue(t, n, s, d) == [t |-> t, n |-> n, s |-> s, d |-> d]
PyNone == PyValue("NoneType", 0, "", EmptyDict)
PyBool(b) == PyValue("bool", IF b THEN 1 ELSE 0, "", EmptyDict)
PyInt(n) == PyValue("int", n, "", EmptyDict)
PyStr(s) == PyValue("str", 0, s, EmptyDict)
PyDict(d) == PyValue("dict", 0, "", d)

\* what an operator returns or raises; args are the arguments the exception
\* was constructed with
Value(v) == [exc |-> None, value |-> v, args |-> <<>>]
Raised(exc, args) == [exc |-> exc, value |-> PyNone, args |-> args]
Raises(exc) == Raised(exc, <<>>)

\* len() of a string or dict; iterating over anything else is a TypeError
len(v) == IF v.t = "str" THEN Len(v.s) ELSE Cardinality(DOMAIN v.d)

\* additive_merge = partial(merge, strategy=Strategy.TYPESAFE_ADDITIVE) of
\* the mergedeep library, on (dst, src): for key in src -- a TypeError when
\* src is not iterable, dst itself when src is empty; a key or character of
\* src is looked up in dst and read from src, a TypeError unless both are
\* dicts; a key of both whose values differ in type is a TypeError, and
\* otherwise the value of src replaces that of dst
additive_merge(dst, src) ==
    IF src.t \notin {"str", "dict"} THEN Raises("TypeError")
    ELSE IF len(src) = 0 THEN Value(dst)
    ELSE IF src.t # "dict" \/ dst.t # "dict" THEN Raises("TypeError")
    ELSE IF \E key \in (DOMAIN src.d) \cap (DOMAIN dst.d) :
                dst.d[key].t # src.d[key].t
    THEN Raises("TypeError")
    ELSE Value(PyDict(dict_update(dst.d, src.d)))

\* a | b on non-negative integers
RECURSIVE bitor(_, _)
bitor(a, b) ==
    IF a = 0 THEN b
    ELSE IF b = 0 THEN a
    ELSE (IF a % 2 = 1 \/ b % 2 = 1 THEN 1 ELSE 0) + 2 * bitor(a \div 2, b \div 2)

\* operator.or_ as it would be if it were Python's `or`: the first operand
\* when it is true, else the second
or_first_true(a, b) ==
    IF a.t \in {"bool", "int"} /\ b.t \in {"bool", "int"}
    THEN Value(IF a.n # 0 THEN a ELSE b)
    ELSE IF a.t = "dict" /\ b.t = "dict" THEN Value(PyDict(dict_update(a.d, b.d)))
    ELSE Raises("TypeError")

\* operator.or_: bool | bool is a bool, with an int an int; dict | dict is
\* the union in which b wins
or_(a, b) ==
    IF a.t = "bool" /\ b.t = "bool" THEN Value(PyBool(a.n = 1 \/ b.n = 1))
    ELSE IF a.t \in {"bool", "int"} /\ b.t \in {"bool", "int"}
    THEN Value(PyInt(bitor(a.n, b.n)))
    ELSE IF a.t = "dict" /\ b.t = "dict" THEN Value(PyDict(dict_update(a.d, b.d)))
    ELSE Raises("TypeError")

\* operator.add: numbers (bools as ints) and strings
py_add(a, b) ==
    IF a.t \in {"bool", "int"} /\ b.t \in {"bool", "int"} THEN Value(PyInt(a.n + b.n))
    ELSE IF a.t = "str" /\ b.t = "str" THEN Value(PyStr(a.s \o b.s))
    ELSE Raises("TypeError")

\* the operators compose knows, and their application
Operators == <<"additive_merge", "or_", "add">>

apply(op, a, b) ==
    CASE op = "additive_merge" -> additive_merge(a, b)
      [] op = "or_" -> or_(a, b)
      [] op = "add" -> py_add(a, b)

\* functools.reduce(op, values) from values[i] on with accumulator acc
RECURSIVE reduce_from(_, _, _, _)
reduce_from(op, values, i, acc) ==
    IF i > Len(values) THEN Value(acc)
    ELSE Only({IF r.exc # None THEN r ELSE reduce_from(op, values, i + 1, r.value) :
                 r \in {apply(op, acc, values[i])}})

reduce(op, values) == reduce_from(op, values, 2, values[1])

\* the loop of compose over the operators from the i-th on
RECURSIVE compose_from(_, _, _)
compose_from(operators, values, i) ==
    IF i > Len(operators) THEN Raised("TypeError", <<"Could not compose", values>>)
    ELSE Only({IF r.exc = None THEN r ELSE compose_from(operators, values, i + 1) :
                 r \in {reduce(operators[i], values)}})

\* the values of **kwargs, a sequence of <<name, value>> pairs, in order
kwargs_values(kwargs) == [i \in 1..Len(kwargs) |-> kwargs[i][2]]

\* compose as it would be with the None results kept
compose_unfiltered(compose_operator, kwargs) ==
    LET values == kwargs_values(kwargs)
    IN  IF Len(values) = 0 THEN Value(PyNone)
        ELSE IF Len(values) = 1 THEN Value(values[1])
        ELSE compose_from(IF compose_operator # None THEN <<compose_operator>>
                          ELSE Operators, values, 1)

\* compose as it would be with add tried before or_
compose_add_first(compose_operator, kwargs) ==
    LET values == SelectSeq(kwargs_values(kwargs), LAMBDA v : v.t # "NoneType")
    IN  IF Len(values) = 0 THEN Value(PyNone)
        ELSE IF Len(values) = 1 THEN Value(values[1])
        ELSE compose_from(IF compose_operator # None THEN <<compose_operator>>
                          ELSE <<"additive_merge", "add", "or_">>, values, 1)

\* compose(compose_operator=None, **kwargs)
compose(compose_operator, kwargs) ==
    LET values == SelectSeq(kwargs_values(kwargs), LAMBDA v : v.t # "NoneType")
    IN  IF Len(values) = 0 THEN Value(PyNone)
        ELSE IF Len(values) = 1 THEN Value(values[1])
        ELSE compose_from(IF compose_operator # None THEN <<compose_operator>>
                          ELSE Operators, values, 1)

(***************************************************************************)
(* execute: publish, then the results composed.  The result of a call is   *)
(* the id of the handler behind the marks of the middlewares it passed;    *)
(* the Python value it stands for is what that handler returns.            *)
(***************************************************************************)
\* what the handlers return, by their id: None, 1, {"a": 1}, {"b": 2}
ReturnValues ==
    <<PyNone, PyInt(1), PyDict([k \in {"a"} |-> PyInt(1)]),
      PyDict([k \in {"b"} |-> PyInt(2)])>>

returns(id) == IF id \in 1..Len(ReturnValues) THEN ReturnValues[id] ELSE PyNone
value_of(result) == returns(result[Len(result)])

\* kwargs[name] = value on the dict of keyword arguments
set_kwarg(kwargs, name, value) ==
    IF \E i \in 1..Len(kwargs) : kwargs[i][1] = name
    THEN [i \in 1..Len(kwargs) |->
            IF kwargs[i][1] = name THEN <<name, value>> ELSE kwargs[i]]
    ELSE Append(kwargs, <<name, value>>)

\* {k.source: v for k, v in results.items()} from the i-th result on
RECURSIVE by_source(_, _, _)
by_source(results, i, kwargs) ==
    IF i > Len(results) THEN kwargs
    ELSE by_source(results, i + 1,
                   set_kwarg(kwargs, results[i].handler.source,
                             value_of(results[i].result)))

\* type(message), the key of a composer: the message's class, or str for
\* an alias
class_of(message) == IF message.instance THEN message.alias ELSE "str"

\* a composer of the caller's called with **kwargs: what it returns is its
\* own business, and is recorded as the composer and what it was given
Override(composer, kwargs) == [composer |-> composer.id, kwargs |-> kwargs]

\* TransactionContext._compose_results with the dict composers
compose_results(composers, message, results) ==
    LET alias == class_of(message)
        kwargs == by_source(results, 1, <<>>)
    IN  IF alias \in DOMAIN composers
        THEN Value(Override(composers[alias], kwargs))
        ELSE compose(None, kwargs)

\* execute as it would be without the check for no results
execute_unchecked(w, mws, self, ms, composers, message, mode) ==
    Only({IF r.exc # None THEN r
          ELSE Only({Outcome(r.w, IF c.exc = None THEN <<c.value>> ELSE <<>>, c.exc) :
                       c \in {compose_results(composers, message, r.result)}}) :
            r \in {IF mode = "sync" THEN publish(w, mws, self, ms, message)
                   ELSE publish_async(w, mws, self, ms, message)}})

\* TransactionContext.execute (mode "sync") and execute_async ("async")
execute(w, mws, self, ms, composers, message, mode) ==
    Only({IF r.exc # None THEN r
          ELSE IF Len(r.result) = 0
          THEN Outcome(r.w, <<>>, "HandlerNotFoundError")
          ELSE Only({Outcome(r.w, IF c.exc = None THEN <<c.value>> ELSE <<>>, c.exc) :
                       c \in {compose_results(composers, message, r.result)}}) :
            r \in {IF mode = "sync" THEN publish(w, mws, self, ms, message)
                   ELSE publish_async(w, mws, self, ms, message)}})

\* await ctx.execute(message), as Application.execute_async has it: execute
\* is a plain method, and what it returns is not awaitable
await_execute(w, mws, self, ms, composers, message) ==
    Only({IF r.exc # None THEN r ELSE Outcome(r.w, <<>>, "TypeError") :
            r \in {execute(w, mws, self, ms, composers, message, "sync")}})

(***************************************************************************)
(* The with statement around one operation of a context.  b names the      *)
(* operation of the block: [op, func, args, kwargs, message].              *)
(***************************************************************************)
CallOf(f) ==
    [op |-> "call", func |-> f, args |-> <<>>, kwargs |-> EmptyDict,
     message |-> NoMessage]
CallAsyncOf(f) == [CallOf(f) EXCEPT !.op = "call_async"]
PublishOf(message) == [CallOf(NoFn) EXCEPT !.op = "publish", !.message = message]
PublishAsyncOf(message) == [PublishOf(message) EXCEPT !.op = "publish_async"]
ExecuteOf(message) == [PublishOf(message) EXCEPT !.op = "execute"]
ExecuteAsyncOf(message) == [PublishOf(message) EXCEPT !.op = "execute_async"]
AwaitExecuteOf(message) == [PublishOf(message) EXCEPT !.op = "await execute"]

\* the operation b on context self, with its middlewares mws and composers
operation(w, mws, self, ms, composers, b) ==
    CASE b.op = "call" -> call(w, mws, self, b.func, b.args, b.kwargs)
      [] b.op = "call_async" -> call_async(w, mws, self, b.func, b.args, b.kwargs)
      [] b.op = "publish" -> publish(w, mws, self, ms, b.message)
      [] b.op = "publish_async" -> publish_async(w, mws, self, ms, b.message)
      [] b.op = "execute" -> execute(w, mws, self, ms, composers, b.message, "sync")
      [] b.op = "execute_async" ->
            execute(w, mws, self, ms, composers, b.message, "async")
      [] b.op = "await execute" ->
            await_execute(w, mws, self, ms, composers, b.message)

\* with ctx: / async with ctx: -- __enter__ raising ends the statement
\* without __exit__
with_enter(w, cm) ==
    Only({Outcome(World([r.w.ctx EXCEPT
                            !.cm = cm,
                            !.pc = IF r.exc = None THEN "entered" ELSE "failed",
                            !.raised = r.exc],
                        r.w.d),
                  <<>>, r.exc) :
            r \in {enter(w, cm)}})

\* the operation in the block; what it raises leaves the block
with_body(w, mws, self, ms, composers, b) ==
    Only({Outcome(World([r.w.ctx EXCEPT !.pc = "called", !.exc = r.exc,
                                        !.result = r.result],
                        r.w.d),
                  r.result, r.exc) :
            r \in {operation(w, mws, self, ms, composers, b)}})

\* leaving the block: __exit__ with what the block raised
with_exit(w) ==
    Only({Outcome(World([r.w.ctx EXCEPT !.pc = "exited", !.raised = r.exc], r.w.d),
                  <<>>, r.exc) :
            r \in {exit(w, w.ctx.cm, w.ctx.exc)}})

\* with ctx: result = ctx.op(...) as one piece, as the Application does
with_statement(w, mws, self, ms, composers, cm, b) ==
    Only({IF r1.exc # None THEN r1
          ELSE Only({Only({Outcome(r3.w, IF r3.exc = None THEN r2.result ELSE <<>>,
                                   r3.exc) :
                             r3 \in {with_exit(r2.w)}}) :
                       r2 \in {with_body(r1.w, mws, self, ms, composers, b)}}) :
            r1 \in {with_enter(w, cm)}})

vars == <<heap, prov, ret, app, modules, ctxs>>

\* what the registry operations leave alone
appvars == <<app, modules, ctxs>>

Providers == 1..Len(prov)

\* the _dependencies dict of provider p
deps(p) == heap[prov[p]]

(***************************************************************************)
(* Inputs of the registry operations.                                      *)
(***************************************************************************)
SeqsUpTo(S, n) == UNION {[1..k -> S] : k \in 0..n}

\* what a caller may hand to update(): plain values and as_type wrappers
PlainDeps == {Plain(v) : v \in Vals}
Deps == PlainDeps \cup {as_type(v, t) : v \in Vals, t \in Types}

\* *args of update / copy / the constructor, drawn from D
ArgSeqs(D) == SeqsUpTo(D, MaxArgs)

\* **kwargs of update / copy / the constructor, in the order given, with
\* names from N and values from D
KwargSeqs(N, D) ==
    {kw \in SeqsUpTo(N \X D, Cardinality(N)) :
        \A i, j \in 1..Len(kw) : i # j => kw[i][1] # kw[j][1]}

\* signatures: parameters with distinct names, each annotated with a type
\* or not at all
Annotations == Types \cup {Empty}
Funcs ==
    {f \in SeqsUpTo(Names \X Annotations, Cardinality(Names)) :
        /\ Len(f) >= 1
        /\ \A i, j \in 1..Len(f) : i # j => f[i][1] # f[j][1]}

\* func_args and func_kwargs of resolve_func_params
FuncArgs == SeqsUpTo(Vals, MaxArgs)
FuncKwargs == UNION {[S -> Vals] : S \in SUBSET Names}

(***************************************************************************)
(* Operations on provider p.  N, I and D are the names, identifiers and    *)
(* dependencies the caller draws its arguments from.                       *)
(***************************************************************************)
\* BasicDependencyProvider(*args, **kwargs): a fresh dict, then update
InitProvider(N, D) ==
    \E args \in ArgSeqs(D), kwargs \in KwargSeqs(N, D) :
        /\ heap = <<update(EmptyDict, args, kwargs)>>
        /\ prov = <<1>>
        /\ ret = [op |-> "init", target |-> 1]

\* p.register_dependency(identifier, dependency) / p[identifier] = dependency
Register(p, I) ==
    \E identifier \in I, dependency \in Vals :
        /\ heap' = [heap EXCEPT
                      ![prov[p]] = register_dependency(@, identifier, dependency)]
        /\ ret' = [op |-> "register", target |-> p]
        /\ UNCHANGED <<prov, appvars>>

\* p.update(*args, **kwargs)
Update(p, N, D) ==
    \E args \in ArgSeqs(D), kwargs \in KwargSeqs(N, D) :
        /\ heap' = [heap EXCEPT ![prov[p]] = update(@, args, kwargs)]
        /\ ret' = [op |-> "update", target |-> p]
        /\ UNCHANGED <<prov, appvars>>

\* p.copy(*args, **kwargs) as it would be with the parent's dict object
\* kept instead of a new one
copy_shared(h, pv, p, args, kwargs) ==
    [heap |-> [h EXCEPT ![pv[p]] = update(@, args, kwargs)],
     prov |-> Append(pv, pv[p])]

\* p.copy(*args, **kwargs) as it would be with the overrides applied
\* first and the parent's bindings laid over them
copy_parent_first(h, pv, p, args, kwargs) ==
    [heap |-> Append(h, dict_update(update(EmptyDict, args, kwargs), h[pv[p]])),
     prov |-> Append(pv, Len(h) + 1)]

\* BasicDependencyProvider.copy: dp = BasicDependencyProvider() allocates a
\* new dict, dp._dependencies.update(self._dependencies) fills it, then
\* dp.update(*args, **kwargs); the new provider is the last of prov
copy(h, pv, p, args, kwargs) ==
    [heap |-> Append(h, update(h[pv[p]], args, kwargs)),
     prov |-> Append(pv, Len(h) + 1)]

Copy(p, N, D) ==
    /\ Len(prov) < MaxProviders
    /\ \E args \in ArgSeqs(D), kwargs \in KwargSeqs(N, D) :
          LET dp == copy(heap, prov, p, args, kwargs)
          IN  /\ heap' = dp.heap
              /\ prov' = dp.prov
    /\ ret' = [op |-> "copy", target |-> Len(prov) + 1, parent |-> p]
    /\ UNCHANGED appvars

\* p.update(*args, **kwargs), the arguments kept with the operation
UpdateOf(p, args, kwargs) ==
    /\ heap' = [heap EXCEPT ![prov[p]] = update(@, args, kwargs)]
    /\ ret' = [op |-> "update", target |-> p, args |-> args, kwargs |-> kwargs]
    /\ UNCHANGED <<prov, appvars>>

\* p.copy(*args, **kwargs), the arguments kept with the operation
CopyOf(p, args, kwargs) ==
    /\ \E dp \in {copy(heap, prov, p, args, kwargs)} :
          /\ heap' = dp.heap
          /\ prov' = dp.prov
    /\ ret' = [op |-> "copy", target |-> Len(prov) + 1, parent |-> p,
               args |-> args, kwargs |-> kwargs]
    /\ UNCHANGED appvars

\* p.resolve_func_params(func, func_args, func_kwargs): reads only
Resolve(p) ==
    \E func \in Funcs, func_args \in FuncArgs, func_kwargs \in FuncKwargs :
        /\ ret' = [op |-> "resolve", target |-> p, func |-> func,
                   func_args |-> func_args, func_kwargs |-> func_kwargs,
                   result |-> resolve_func_params(deps(p), func, func_args,
                                                  func_kwargs)]
        /\ UNCHANGED <<heap, prov, appvars>>

(***************************************************************************)
(* Operations of the application, its modules and its contexts.            *)
(***************************************************************************)
Contexts == 1..Len(ctxs)

\* the world of context c, and the middleware list it holds
world(c) == World(ctxs[c], heap[prov[ctxs[c].dependency_provider]])
middlewares_of(ctx) == list_of(ctx.middlewares, app.transaction_middlewares)
composers_of(ctx) == dict_of(ctx.composers, app.composers)

\* Application(**kwargs) and the modules, before any registration
InitApplication ==
    /\ app = Application(1)
    /\ modules = [name \in ModuleNames |-> ApplicationModule]
    /\ ctxs = <<>>

\* nothing was registered with the application or its modules
Unregistered ==
    /\ app = Application(1)
    /\ modules = [name \in ModuleNames |-> ApplicationModule]

\* @app.transaction_middleware; middlewares are numbered as registered
TransactionMiddleware ==
    /\ Len(app.transaction_middlewares) < MaxMws
    /\ \E k \in MwKinds :
          app' = [app EXCEPT !.transaction_middlewares =
                     transaction_middleware(@, Middleware(Len(@) + 1, k))]
    /\ ret' = [op |-> "transaction_middleware", target |-> 0]
    /\ UNCHANGED <<heap, prov, modules, ctxs>>

\* @app.on_enter_transaction_context
OnEnterTransactionContext ==
    /\ \E func \in EnterHooks : app' = [app EXCEPT !.on_enter = func]
    /\ ret' = [op |-> "on_enter_transaction_context", target |-> 0]
    /\ UNCHANGED <<heap, prov, modules, ctxs>>

\* @app.on_exit_transaction_context
OnExitTransactionContext ==
    /\ \E func \in ExitHooks : app' = [app EXCEPT !.on_exit = func]
    /\ ret' = [op |-> "on_exit_transaction_context", target |-> 0]
    /\ UNCHANGED <<heap, prov, modules, ctxs>>

\* @app.compose(alias) on func
AppCompose(alias, func) ==
    /\ app' = [app EXCEPT !.composers = setitem(@, alias, func)]
    /\ ret' = [op |-> "Application.compose", target |-> 0]
    /\ UNCHANGED <<heap, prov, modules, ctxs>>

\* parent.include_submodule(child); modules are included into earlier ones
IncludeSubmodule(parent, child) ==
    /\ modules' = [modules EXCEPT ![parent] = include_submodule(@, child)]
    /\ ret' = [op |-> "include_submodule", target |-> 0]
    /\ UNCHANGED <<heap, prov, app, ctxs>>

\* @module.handler(alias) on func
Handler(name, alias, func) ==
    /\ modules' = [modules EXCEPT ![name] = handler(@, alias, func)]
    /\ ret' = [op |-> "handler", target |-> 0]
    /\ UNCHANGED <<heap, prov, app, ctxs>>

\* Application.transaction_context as it would be with the application's
\* own provider handed to the context
transaction_context_shared(h, pv, dependencies) ==
    LET dp == [heap |-> [h EXCEPT ![pv[app.dependency_provider]] =
                                     update(@, <<>>, dependencies)],
               prov |-> pv]
    IN  [heap |-> dp.heap,
         prov |-> dp.prov,
         ctx |-> configure(TransactionContext(app.dependency_provider),
                           app.on_enter, app.on_exit, AppList,
                           app.transaction_middlewares, AppDict, app.composers,
                           AppIterator)]

\* Application.transaction_context(**dependencies) without a factory: a
\* copy of the application's provider, a context on it, configure with the
\* application's callbacks, its list of middlewares and its handler lookup
transaction_context(h, pv, dependencies) ==
    LET dp == copy(h, pv, app.dependency_provider, <<>>, dependencies)
    IN  [heap |-> dp.heap,
         prov |-> dp.prov,
         ctx |-> configure(TransactionContext(Len(dp.prov)),
                           app.on_enter, app.on_exit, AppList,
                           app.transaction_middlewares, AppDict, app.composers,
                           AppIterator)]

\* ctx = app.transaction_context(**dependencies)
AppTransactionContext(N, D) ==
    /\ \E dependencies \in KwargSeqs(N, D) :
          \E made \in {transaction_context(heap, prov, dependencies)} :
              /\ heap' = made.heap
              /\ prov' = made.prov
              /\ ctxs' = Append(ctxs, made.ctx)
    /\ ret' = [op |-> "transaction_context", target |-> Len(ctxs) + 1]
    /\ UNCHANGED <<app, modules>>

(***************************************************************************)
(* lato.testing: override(application, **kwargs) is override_app and       *)
(* override_ctx nested, both generators under contextlib.contextmanager:   *)
(* the code after their yield runs when the block is left normally, and is *)
(* skipped when the block raises, since the yield stands in no try.        *)
(***************************************************************************)
\* overriden_transaction_context(**dependencies), the closure in place on
\* application a: the context the original method makes for a (a copy of
\* a's provider, configured from a), its provider replaced by a copy with
\* the overrides
overriden_transaction_context(a, h, pv, dependencies) ==
    LET dp == copy(h, pv, a.dependency_provider, <<>>, dependencies)
        ctx == configure(TransactionContext(Len(dp.prov)), a.on_enter, a.on_exit,
                         AppList, a.transaction_middlewares, AppDict, a.composers,
                         AppIterator)
        overridden == copy(dp.heap, dp.prov, ctx.dependency_provider,
                           a.transaction_context.args, a.transaction_context.kwargs)
    IN  [heap |-> overridden.heap,
         prov |-> overridden.prov,
         ctx |-> [ctx EXCEPT !.dependency_provider = Len(overridden.prov)]]

\* the code after the yields as it would be with the provider left in place
override_exit_ctx_only(a, original_dependency_provider, original_transaction_context) ==
    [a EXCEPT !.transaction_context = original_transaction_context]

\* the code after the yields of override_ctx and override_app
override_exit(a, original_dependency_provider, original_transaction_context) ==
    [a EXCEPT !.transaction_context = original_transaction_context,
              !.dependency_provider = original_dependency_provider]

\* the block of the with statement on the overridden application a: it
\* reads application[identifier], or makes a context
BlockOps == {[op |-> "getitem", identifier |-> i] : i \in Names}
            \cup {[op |-> "transaction_context", identifier |-> ""]}

\* with override(application, **kwargs) as overridden: block b.  inside is
\* the registry the block reads: the application's, or the context's
WithOverride(kwargs, b) ==
    /\ \E dp \in {copy(heap, prov, app.dependency_provider, <<>>, kwargs)} :
        \E overridden1 \in {[app EXCEPT !.dependency_provider = Len(dp.prov)]} :
        \E overridden2 \in {[overridden1 EXCEPT
                                !.transaction_context = Closure(<<>>, kwargs)]} :
          IF b.op = "getitem"
          THEN \E d \in {dp.heap[dp.prov[overridden2.dependency_provider]]} :
                 /\ heap' = dp.heap
                 /\ prov' = dp.prov
                 /\ ctxs' = ctxs
                 /\ app' = IF has_dependency(d, b.identifier)
                           THEN override_exit(overridden2, app.dependency_provider,
                                              overridden1.transaction_context)
                           ELSE overridden2
                 /\ ret' = [op |-> "override", target |-> 0, kwargs |-> kwargs,
                            block |-> b, inside |-> d,
                            exc |-> IF has_dependency(d, b.identifier) THEN None
                                    ELSE "UnknownDependencyError"]
          ELSE \E made \in {overriden_transaction_context(overridden2, dp.heap,
                                                          dp.prov, <<>>)} :
                 /\ heap' = made.heap
                 /\ prov' = made.prov
                 /\ ctxs' = Append(ctxs, made.ctx)
                 /\ app' = override_exit(overridden2, app.dependency_provider,
                                         overridden1.transaction_context)
                 /\ ret' = [op |-> "override", target |-> 0, kwargs |-> kwargs,
                            block |-> b,
                            inside |-> made.heap[made.prov[made.ctx.dependency_provider]],
                            exc |-> None]
    /\ UNCHANGED modules

\* the middleware lists a caller may hand to configure, numbered by position
MiddlewareLists ==
    {[i \in 1..Len(ks) |-> Middleware(i, ks[i])] : ks \in SeqsUpTo(MwKinds, MaxMws)}

\* ctx = TransactionContext(); ctx.configure(...) by the caller itself, with
\* callbacks, middleware list, composers and iterator drawn from the given
\* sets
DirectContext(OnEnter, OnExit, Lists, Composers, Iterators) ==
    /\ \E on_enter \in OnEnter, on_exit \in OnExit, mws \in Lists,
          composers \in Composers, it \in Iterators :
          ctxs' = Append(ctxs,
                    configure(TransactionContext(Len(prov) + 1), on_enter, on_exit,
                              OwnList(mws), app.transaction_middlewares,
                              OwnDict(composers), app.composers, it))
    /\ heap' = Append(heap, EmptyDict)
    /\ prov' = Append(prov, Len(heap) + 1)
    /\ ret' = [op |-> "configure", target |-> Len(ctxs) + 1]
    /\ UNCHANGED <<app, modules>>

\* the state after an operation on context c with outcome r
Stored(c, r, op) ==
    /\ ctxs' = [ctxs EXCEPT ![c] = r.w.ctx]
    /\ heap' = [heap EXCEPT ![prov[ctxs[c].dependency_provider]] = r.w.d]
    /\ ret' = [op |-> op, target |-> c, result |-> r.result, exc |-> r.exc]
    /\ UNCHANGED <<prov, app, modules>>

\* with ctx: / async with ctx: is entered
Enter(c, cm) ==
    /\ ctxs[c].pc = "created"
    /\ \E r \in {with_enter(world(c), cm)} : Stored(c, r, "enter")

\* the operation b in the block of the with statement
Body(c, b) ==
    /\ ctxs[c].pc = "entered"
    /\ \E r \in {with_body(world(c), middlewares_of(ctxs[c]), c, modules,
                         composers_of(ctxs[c]), b)} :
          Stored(c, r, b.op)

\* ctx.call(func) in the block
Call(c, func) == Body(c, CallOf(func))

\* ctx.call(func, *args, **kwargs) in the block, the function and the
\* arguments kept with the operation
CallWith(c, func, args, kwargs) ==
    /\ ctxs[c].pc = "entered"
    /\ \E r \in {with_body(world(c), middlewares_of(ctxs[c]), c, modules,
                         composers_of(ctxs[c]),
                         [CallOf(func) EXCEPT !.args = args, !.kwargs = kwargs])} :
          /\ ctxs' = [ctxs EXCEPT ![c] = r.w.ctx]
          /\ heap' = [heap EXCEPT ![prov[ctxs[c].dependency_provider]] = r.w.d]
          /\ ret' = [op |-> "call", target |-> c, result |-> r.result,
                     exc |-> r.exc, func |-> func, args |-> args, kwargs |-> kwargs]
    /\ UNCHANGED <<prov, app, modules>>

\* await ctx.call_async(func) in the block
CallAsync(c, func) == Body(c, CallAsyncOf(func))

\* ctx.publish(message) in the block
Publish(c, message) == Body(c, PublishOf(message))

\* ctx.publish(message) in the block, the message kept with the operation
PublishOn(c, message) ==
    /\ ctxs[c].pc = "entered"
    /\ \E r \in {with_body(world(c), middlewares_of(ctxs[c]), c, modules,
                         composers_of(ctxs[c]), PublishOf(message))} :
          /\ ctxs' = [ctxs EXCEPT ![c] = r.w.ctx]
          /\ heap' = [heap EXCEPT ![prov[ctxs[c].dependency_provider]] = r.w.d]
          /\ ret' = [op |-> "publish", target |-> c, result |-> r.result,
                     exc |-> r.exc, message |-> message]
    /\ UNCHANGED <<prov, app, modules>>

\* await ctx.publish_async(message) in the block
PublishAsync(c, message) == Body(c, PublishAsyncOf(message))

\* ctx.execute(message) in the block
Execute(c, message) == Body(c, ExecuteOf(message))

\* await ctx.execute_async(message) in the block
ExecuteAsync(c, message) == Body(c, ExecuteAsyncOf(message))

\* ctx.set_dependency(identifier, dependency) in the block
SetDependency(c, I) ==
    /\ ctxs[c].pc \in {"entered", "called"}
    /\ ctxs[c].exc = None
    /\ \E identifier \in I, dependency \in Vals :
          heap' = [heap EXCEPT ![prov[ctxs[c].dependency_provider]] =
                      register_dependency(@, identifier, dependency)]
    /\ ret' = [op |-> "set_dependency", target |-> c, result |-> <<>>, exc |-> None]
    /\ UNCHANGED <<prov, app, modules, ctxs>>

\* the block of the with statement is left
Exit(c) ==
    /\ ctxs[c].pc \in {"entered", "called"}
    /\ \E r \in {with_exit(world(c))} : Stored(c, r, "exit")

\* an operation of the Application: a new context, and the with statement
\* around the one operation b of it
AppOperation(op, cm, b) ==
    \E made \in {transaction_context(heap, prov, <<>>)} :
      \E r \in {with_statement(
                   World(made.ctx,
                         made.heap[made.prov[made.ctx.dependency_provider]]),
                   middlewares_of(made.ctx), Len(ctxs) + 1, modules,
                   composers_of(made.ctx), cm, b)} :
        /\ ctxs' = Append(ctxs, r.w.ctx)
        /\ heap' = [made.heap EXCEPT
                       ![made.prov[made.ctx.dependency_provider]] = r.w.d]
        /\ prov' = made.prov
        /\ ret' = [op |-> op, target |-> Len(ctxs) + 1, result |-> r.result,
                   exc |-> r.exc]
        /\ UNCHANGED <<app, modules>>

\* Application.call(func)
AppCall(func) == AppOperation("Application.call", "with", CallOf(func))

\* Application.call_async(func)
AppCallAsync(func) ==
    AppOperation("Application.call_async", "async with", CallAsyncOf(func))

\* Application.call(alias) as it would be with the last handler of the
\* alias taken
AppCallAliasLast(alias) ==
    \E fns \in {iterate_handlers_for(modules, "app", alias)} :
       IF fns = <<>>
       THEN /\ ret' = [op |-> "Application.call", target |-> 0, result |-> <<>>,
                       exc |-> "ValueError"]
            /\ UNCHANGED <<heap, prov, app, modules, ctxs>>
       ELSE AppCall(fns[Len(fns)])

\* Application.call(alias), the function given by its alias: the first
\* handler of the alias is looked up before any context is made, and
\* StopIteration is turned into the error raised
AppCallAlias(alias) ==
    \E fns \in {iterate_handlers_for(modules, "app", alias)} :
       IF fns = <<>>
       THEN /\ ret' = [op |-> "Application.call", target |-> 0, result |-> <<>>,
                       exc |-> "ValueError"]
            /\ UNCHANGED <<heap, prov, app, modules, ctxs>>
       ELSE AppCall(fns[1])

\* Application.call_async(alias)
AppCallAsyncAlias(alias) ==
    \E fns \in {iterate_handlers_for(modules, "app", alias)} :
       IF fns = <<>>
       THEN /\ ret' = [op |-> "Application.call_async", target |-> 0,
                       result |-> <<>>, exc |-> "ValueError"]
            /\ UNCHANGED <<heap, prov, app, modules, ctxs>>
       ELSE AppCallAsync(fns[1])

\* Application.publish(event)
AppPublish(event) == AppOperation("Application.publish", "with", PublishOf(event))

\* Application.publish_async(event)
AppPublishAsync(event) ==
    AppOperation("Application.publish_async", "async with", PublishAsyncOf(event))

\* Application.execute(message)
AppExecute(message) ==
    AppOperation("Application.execute", "with", ExecuteOf(message))

\* Application.execute_async(message): async with, and await ctx.execute
AppExecuteAsync(message) ==
    AppOperation("Application.execute_async", "async with", AwaitExecuteOf(message))

(***************************************************************************)
(* SpecResolve: one provider, built by its constructor and by register and *)
(* update calls, then asked to resolve the parameters of a call.  A        *)
(* behaviour ends with its resolve_func_params call: resolving changes no  *)
(* binding, so what could follow is what could have preceded it.           *)
(***************************************************************************)
InitResolve == InitProvider(Names, Deps) /\ InitApplication

NextResolve ==
    /\ ret.op # "resolve"
    /\ \/ Register(1, Idents)
       \/ Update(1, Names, Deps)
       \/ Resolve(1)

SpecResolve == InitResolve /\ [][NextResolve]_vars

(***************************************************************************)
(* SpecCopy: providers are copied and mutated, over one name and one type. *)
(***************************************************************************)
CopyNames == {"x"}
CopyIdents == {"x", "int"}

InitCopy == InitProvider(CopyNames, PlainDeps) /\ InitApplication

NextCopy ==
    \E p \in Providers :
        \/ Register(p, CopyIdents)
        \/ Update(p, CopyNames, PlainDeps)
        \/ Copy(p, CopyNames, PlainDeps)

SpecCopy == InitCopy /\ [][NextCopy]_vars

(***************************************************************************)
(* SpecUpdate: one provider, built by its constructor from plain values,   *)
(* is updated or copied once, with plain values and as_type wrappers.      *)
(***************************************************************************)
InitUpdate == InitProvider(Names, PlainDeps) /\ InitApplication

NextUpdate ==
    /\ ret.op = "init"
    /\ \E args \in ArgSeqs(Deps), kwargs \in KwargSeqs(Names, Deps) :
          \/ UpdateOf(1, args, kwargs)
          \/ CopyOf(1, args, kwargs)

SpecUpdate == InitUpdate /\ [][NextUpdate]_vars

(***************************************************************************)
(* SpecOverride: an application whose provider was built by its            *)
(* constructor from plain values is overridden once, with named plain      *)
(* values and as_type wrappers, around a block that reads a dependency or  *)
(* makes a context.                                                        *)
(***************************************************************************)
InitOverride == InitProvider(Names, PlainDeps) /\ InitApplication

NextOverride ==
    /\ ret.op = "init"
    /\ \E kwargs \in KwargSeqs(Names, Deps), b \in BlockOps : WithOverride(kwargs, b)

SpecOverride == InitOverride /\ [][NextOverride]_vars

(***************************************************************************)
(* SpecCtx: one unit of work.  An application registers middlewares and    *)
(* callbacks, then one context is made: by app.transaction_context() and   *)
(* driven by a with statement around one call, or by an operation of the   *)
(* Application, or built and configured by the caller, who configures only *)
(* contexts of an application without registrations, which they never read. *)
(***************************************************************************)
InitCtx == InitProvider({}, {}) /\ InitApplication

NextCtx ==
    \/ /\ ctxs = <<>>
       /\ \/ TransactionMiddleware
          \/ OnEnterTransactionContext
          \/ OnExitTransactionContext
          \/ AppTransactionContext({}, {})
          \/ /\ Unregistered
             /\ DirectContext(EnterHooks \cup {NoHook}, ExitHooks \cup {NoHook},
                              MiddlewareLists, {EmptyDict}, {NoIterator})
          \/ \E func \in HandlerFns : AppCall(func)
          \/ \E func \in HandlerFns : AppCallAsync(func)
    \/ \E c \in Contexts :
          \/ Enter(c, "with")
          \/ Enter(c, "async with")
          \/ \E func \in HandlerFns : Call(c, func)
          \/ \E func \in HandlerFns : CallAsync(c, func)
          \/ Exit(c)

SpecCtx == InitCtx /\ [][NextCtx]_vars

(***************************************************************************)
(* SpecApp: contexts of one application, each with its own registry.  The  *)
(* application has a handler for the published alias; a context is driven  *)
(* by a with statement around one call or publish and any number of        *)
(* set_dependency calls, or made and used up by Application.call or        *)
(* Application.publish.                                                    *)
(***************************************************************************)
AppHandler == Function(1, FALSE, "ok", <<>>)

InitApp == InitProvider(CopyNames, PlainDeps) /\ InitApplication

NextApp ==
    \/ /\ ctxs = <<>>
       /\ Handler("app", "SampleEvent", AppHandler)
    \/ /\ Len(ctxs) < MaxCtxs
       /\ \/ AppTransactionContext(CopyNames, PlainDeps)
          \/ AppCall(AppHandler)
          \/ AppPublish(MessageList[1])
    \/ \E c \in Contexts :
          \/ Enter(c, "with")
          \/ SetDependency(c, CopyNames)
          \/ Call(c, AppHandler)
          \/ Publish(c, MessageList[1])
          \/ Exit(c)

SpecApp == InitApp /\ [][NextApp]_vars

(***************************************************************************)
(* SpecPub: modules are included into one another and handlers registered  *)
(* for one alias, then a message is published: through the Application,    *)
(* or through a context the caller configured with an iterator of          *)
(* MessageHandlers.                                                        *)
(***************************************************************************)
\* the modules a module may include: those after it, so that no module
\* comes to include itself
ModuleOrder == <<"app", "A", "B", "C">>
Before(m, n) ==
    \E i, j \in 1..Len(ModuleOrder) :
        i < j /\ ModuleOrder[i] = m /\ ModuleOrder[j] = n

\* module n is a submodule of some module
Included(n) ==
    \E m \in ModuleNames :
        \E i \in 1..Len(modules[m].submodules) : modules[m].submodules[i] = n

\* the handler functions of the tree, and the MessageHandlers of an iterator
TreeFns == {Function(i, FALSE, "ok", <<>>) : i \in 1..2}
PubFns == {Function(i, FALSE, b, <<>>) : i \in 1..2, b \in {"ok", "raise"}}
PubHandlers == {MessageHandler("m", "SampleEvent", f) : f \in PubFns}
PubIterators == {ListIterator(l) : l \in SeqsUpTo(PubHandlers, 2)}
PubLists == {m \in MiddlewareLists : \A i \in 1..Len(m) : ~m[i].async /\ m[i].behav = "wrap"}

InitPub == InitProvider({}, {}) /\ InitApplication

NextPub ==
    \/ /\ ctxs = <<>>
       /\ \/ \E parent, child \in ModuleNames :
                /\ Before(parent, child)
                /\ ~Included(child)
                /\ IncludeSubmodule(parent, child)
          \/ \E name \in ModuleNames, func \in TreeFns :
                Handler(name, "SampleEvent", func)
          \/ \E event \in Messages : AppPublish(event)
          \/ \E event \in Messages : AppPublishAsync(event)
          \/ /\ Unregistered
             /\ DirectContext({NoHook}, {NoHook}, PubLists, {EmptyDict}, PubIterators)
    \/ \E c \in Contexts :
          \/ Enter(c, "with")
          \/ \E message \in Messages : Publish(c, message)
          \/ \E message \in Messages : PublishAsync(c, message)
          \/ Exit(c)

SpecPub == InitPub /\ [][NextPub]_vars

(***************************************************************************)
(* SpecExec: a message is executed.  An application registers handlers,    *)
(* callbacks, middlewares and a composer and executes the message; or the  *)
(* caller configures a context with an iterator of MessageHandlers from    *)
(* two sources, middlewares and composers, and executes the message in a   *)
(* with block.                                                             *)
(***************************************************************************)
\* the handlers of the application: they return 1
ExecTreeFns == {Function(2, a, "ok", <<>>) : a \in BOOLEAN}

\* the MessageHandlers of an iterator: one function for every return value
ExecSources == {"m1", "m2"}
ExecHandlers ==
    {MessageHandler(source, "SampleEvent", Function(i, FALSE, "ok", <<>>)) :
        source \in ExecSources, i \in 1..Len(ReturnValues)}
ExecIterators == {ListIterator(l) : l \in SeqsUpTo(ExecHandlers, MaxResults)}
ExecComposers == {EmptyDict, [alias \in {"SampleEvent"} |-> Composer(1)]}

InitExec == InitProvider({}, {}) /\ InitApplication

NextExec ==
    \/ /\ ctxs = <<>>
       /\ \/ \E func \in ExecTreeFns : Handler("app", "SampleEvent", func)
          \/ AppCompose("SampleEvent", Composer(1))
          \/ TransactionMiddleware
          \/ OnEnterTransactionContext
          \/ OnExitTransactionContext
          \/ \E message \in Messages : AppExecute(message)
          \/ \E message \in Messages : AppExecuteAsync(message)
          \/ /\ Unregistered
             /\ DirectContext({NoHook}, {NoHook}, PubLists, ExecComposers,
                              ExecIterators)
    \/ \E c \in Contexts :
          \/ Enter(c, "with")
          \/ Enter(c, "async with")
          \/ \E message \in Messages : Execute(c, message)
          \/ \E message \in Messages : ExecuteAsync(c, message)
          \/ Exit(c)

SpecExec == InitExec /\ [][NextExec]_vars

(***************************************************************************)
(* SpecPubAsync: a message is published asynchronously, to handlers that   *)
(* are plain functions or coroutine functions with a suspension point,     *)
(* behind synchronous and asynchronous middlewares: through the            *)
(* Application, or through a context the caller configured.                *)
(***************************************************************************)
AsyncFns ==
    {Function(i, FALSE, "ok", <<>>) : i \in 1..2}
    \cup {Function(i, TRUE, "suspend", <<>>) : i \in 1..2}
AsyncIterators ==
    {ListIterator(l) :
        l \in SeqsUpTo({MessageHandler("m", "SampleEvent", f) : f \in AsyncFns},
                       MaxResults)}
AsyncLists == {m \in MiddlewareLists : \A i \in 1..Len(m) : m[i].behav = "wrap"}

InitPubAsync == InitProvider({}, {}) /\ InitApplication

NextPubAsync ==
    \/ /\ ctxs = <<>>
       /\ \/ \E func \in AsyncFns : Handler("app", "SampleEvent", func)
          \/ \E event \in Messages : AppPublishAsync(event)
          \/ /\ Unregistered
             /\ DirectContext({NoHook}, {NoHook}, AsyncLists, {EmptyDict},
                              AsyncIterators)
    \/ \E c \in Contexts :
          \/ Enter(c, "async with")
          \/ \E message \in Messages : PublishAsync(c, message)
          \/ Exit(c)

SpecPubAsync == InitPubAsync /\ [][NextPubAsync]_vars

(***************************************************************************)
(* SpecAlias: modules are included into one another and handlers are       *)
(* registered under two aliases, and the application calls a handler by    *)
(* its alias, any number of times while no handler is found.               *)
(***************************************************************************)
CallAliases == {"SampleEvent", "create_user"}
\* the functions a module registers under an alias: the application two
\* of its own, module A one of them again, modules B and C their own
AliasFns(name, alias) ==
    {Function(i, FALSE, "ok", <<>>) :
       i \in IF alias = "create_user" THEN {5}
             ELSE IF name = "app" THEN {1, 2}
             ELSE IF name = "A" THEN {2}
             ELSE IF name = "B" THEN {3} ELSE {4}}

InitAlias == InitProvider({}, {}) /\ InitApplication

NextAlias ==
    /\ ctxs = <<>>
    /\ \/ \E parent, child \in ModuleNames :
             /\ Before(parent, child)
             /\ ~Included(child)
             /\ IncludeSubmodule(parent, child)
       \/ \E name \in ModuleNames, alias \in CallAliases :
             \E func \in AliasFns(name, alias) : Handler(name, alias, func)
       \/ \E alias \in CallAliases : AppCallAlias(alias)
       \/ \E alias \in CallAliases : AppCallAsyncAlias(alias)

SpecAlias == InitAlias /\ [][NextAlias]_vars

(***************************************************************************)
(* SpecSelf: a context whose registry was given bindings for ctx,          *)
(* TransactionContext and int calls a function, or publishes a message to  *)
(* handlers, whose parameters are named ctx or x and annotated with        *)
(* TransactionContext, with int or not at all, or that have no parameter.  *)
(***************************************************************************)
SelfIdents == {"ctx", "TransactionContext", "int"}
SelfNames == {"ctx", "x"}
SelfSigs ==
    {f \in SeqsUpTo(SelfNames \X {Empty, "TransactionContext", "int"},
                    Cardinality(SelfNames)) :
        \A i, j \in 1..Len(f) : i # j => f[i][1] # f[j][1]}
SelfFns == {Function(1, FALSE, "ok", sig) : sig \in SelfSigs}
SelfArgs == {<<>>, <<1>>, <<1, 2>>}
SelfKwargs == UNION {[S -> {2}] : S \in SUBSET SelfNames}
SelfIterators ==
    {ListIterator(l) :
        l \in SeqsUpTo({MessageHandler("m", "SampleEvent", f) : f \in SelfFns}, 1)}

InitSelf == InitProvider({}, {}) /\ InitApplication

NextSelf ==
    \/ /\ ctxs = <<>>
       /\ \/ AppTransactionContext({}, {})
          \/ /\ Unregistered
             /\ DirectContext({NoHook}, {NoHook}, {<<>>}, {EmptyDict}, SelfIterators)
    \/ \E c \in Contexts :
          \/ Enter(c, "with")
          \/ ctxs[c].pc = "entered" /\ SetDependency(c, SelfIdents)
          \/ \E func \in SelfFns, args \in SelfArgs, kwargs \in SelfKwargs :
                CallWith(c, func, args, kwargs)
          \/ \E message \in Messages : Publish(c, message)
          \/ Exit(c)

SpecSelf == InitSelf /\ [][NextSelf]_vars

(***************************************************************************)
(* SpecShort: a context configured by the caller with synchronous          *)
(* middlewares that pass the result on, return their own value after or    *)
(* without calling call_next, or raise, calls a function that returns or   *)
(* raises; it may have an exit callback.                                   *)
(***************************************************************************)
ShortKinds ==
    {[async |-> FALSE, behav |-> b] : b \in {"wrap", "return", "drop", "raise"}}
ShortLists ==
    {[i \in 1..Len(ks) |-> Middleware(i, ks[i])] : ks \in SeqsUpTo(ShortKinds, MaxMws)}
ShortFns == {Function(0, FALSE, b, <<>>) : b \in {"ok", "raise"}}

InitShort == InitProvider({}, {}) /\ InitApplication

NextShort ==
    \/ /\ ctxs = <<>>
       /\ Unregistered
       /\ DirectContext({NoHook}, {NoHook} \cup {h \in ExitHooks : ~h.async},
                        ShortLists, {EmptyDict}, {NoIterator})
    \/ \E c \in Contexts :
          \/ Enter(c, "with")
          \/ \E func \in ShortFns : CallWith(c, func, <<>>, EmptyDict)
          \/ Exit(c)

SpecShort == InitShort /\ [][NextShort]_vars

(***************************************************************************)
(* SpecEmit: handlers that take the context as ctx, read its               *)
(* current_action and emit the message "sample_event" on it.  A context is *)
(* configured by the caller with callbacks, middlewares and an iterator    *)
(* of MessageHandlers for the published and for the emitted message, and   *)
(* publishes a message or calls an emitting function; or an application    *)
(* with callbacks, middlewares and handlers of the emitted message calls   *)
(* the emitting function, itself or in a context it made.                  *)
(***************************************************************************)
\* def f(ctx) and def f(message, ctx): a published message instance is the
\* first positional argument of its handlers
EmitSig == << <<"ctx", Empty>> >>
MessageSig == << <<"message", Empty>>, <<"ctx", Empty>> >>
\* the handlers of the published message, those of the emitted message, and
\* the function that a call is given
OuterFns ==
    {Function(i, FALSE, b, MessageSig) : i \in {1, 2}, b \in {"read", "emit_read"}}
NestedFns == {Function(i, FALSE, "read", EmitSig) : i \in {3, 4}}
UseCase == Function(5, FALSE, "emit", EmitSig)
EmitIterators ==
    {ListIterator(outer \o nested) :
        outer \in SeqsUpTo({MessageHandler("m", "SampleEvent", f) : f \in OuterFns}, 2),
        nested \in SeqsUpTo({MessageHandler("m", "sample_event", f) : f \in NestedFns}, 2)}
EmitHooks == {h \in EnterHooks \cup ExitHooks : ~h.async /\ h.behav = "ok"}

InitEmit == InitProvider({}, {}) /\ InitApplication

NextEmit ==
    \/ /\ ctxs = <<>>
       /\ \/ /\ TransactionMiddleware
             /\ app'.transaction_middlewares \in PubLists
          \/ OnEnterTransactionContext /\ app'.on_enter \in EmitHooks
          \/ OnExitTransactionContext /\ app'.on_exit \in EmitHooks
          \/ \E func \in NestedFns : Handler("app", "sample_event", func)
          \/ AppTransactionContext({}, {})
          \/ AppCall(UseCase)
          \/ /\ Unregistered
             /\ DirectContext({NoHook} \cup EmitHooks, {NoHook} \cup EmitHooks,
                              PubLists, {EmptyDict}, EmitIterators)
    \/ \E c \in Contexts :
          \/ Enter(c, "with")
          \/ CallWith(c, UseCase, <<>>, EmptyDict)
          \/ \E message \in Messages : PublishOn(c, message)
          \/ Exit(c)

SpecEmit == InitEmit /\ [][NextEmit]_vars

(***************************************************************************)
(* SpecCompose: compose is called once, on keyword arguments drawn from    *)
(* None, bools, ints, a string and flat dicts (no lists or tuples, no      *)
(* nested dicts), without an operator or with operator.add.                *)
(***************************************************************************)
ComposeKeys == {"a", "b"}
ComposeScalars == {PyBool(TRUE), PyBool(FALSE), PyInt(1), PyInt(2), PyStr("x")}
ComposeItems == {PyInt(1), PyInt(2), PyBool(TRUE)}
ComposeDicts == UNION {{PyDict(d) : d \in [K -> ComposeItems]} : K \in SUBSET ComposeKeys}
ComposeValues == {PyNone} \cup ComposeScalars \cup ComposeDicts

\* the names of the keyword arguments, by position
KeywordNames == <<"m1", "m2", "m3", "m4", "m5">>

\* compose(compose_operator, **kwargs)
Compose ==
    /\ \E compose_operator \in {None, "add"},
          values \in SeqsUpTo(ComposeValues, MaxResults) :
          \E kwargs \in {[i \in 1..Len(values) |-> <<KeywordNames[i], values[i]>>]} :
            \E r \in {compose(compose_operator, kwargs)} :
              ret' = [op |-> "compose", target |-> 0,
                      compose_operator |-> compose_operator, kwargs |-> kwargs,
                      result |-> r.value, exc |-> r.exc, args |-> r.args]
    /\ UNCHANGED <<heap, prov, appvars>>

InitCompose == InitProvider({}, {}) /\ InitApplication

NextCompose == ret.op # "compose" /\ Compose

SpecCompose == InitCompose /\ [][NextCompose]_vars

(***************************************************************************)
(* Claims about the registry and the resolver.                             *)
(***************************************************************************)
\* the identifiers looked up through has_dependency / get_dependency
Lookups(p) ==
    [i \in Idents |-> <<has_dependency(deps(p), i), get_dependency(deps(p), i)>>]

\* parameter i of the resolved call got no positional and no keyword argument
Injected(i) ==
    /\ i > Len(ret.func_args)
    /\ ret.func[i][1] \notin DOMAIN ret.func_kwargs

\* C6: a parameter without positional or keyword argument, whose declared
\* type and whose name are both bound in the registry to different values,
\* is resolved to the value bound to the type.
C6_TypeBindingWins ==
    ret.op = "resolve" =>
        \A i \in 1..Len(ret.func) :
            LET n == ret.func[i][1]
                t == ret.func[i][2]
                d == deps(ret.target)
            IN  (/\ Injected(i)
                 /\ t # Empty
                 /\ has_dependency(d, t)
                 /\ has_dependency(d, n)
                 /\ d[t] # d[n])
                => (n \in DOMAIN ret.result /\ ret.result[n] = d[t])

\* f(x: int) resolved with nothing passed, in a registry where "x" is
\* bound to 1 and int, written by a later dependency, to 2
C6_Witness ==
    /\ ret.op = "resolve"
    /\ ret.func = << <<"x", "int">> >>
    /\ ret.func_args = <<>>
    /\ DOMAIN ret.func_kwargs = {}
    /\ has_dependency(deps(1), "x") /\ deps(1)["x"] = 1
    /\ has_dependency(deps(1), "y") /\ deps(1)["y"] = 2
    /\ has_dependency(deps(1), "int") /\ deps(1)["int"] = 2
    /\ ret.result["x"] = 2

\* the source a parameter is resolved from, in the order of precedence
SourceOf(d, func, func_args, func_kwargs, i) ==
    IF i <= Len(func_args) THEN "positional"
    ELSE IF func[i][1] \in DOMAIN func_kwargs THEN "keyword"
    ELSE IF func[i][2] # Empty /\ has_dependency(d, func[i][2]) THEN "type"
    ELSE IF has_dependency(d, func[i][1]) THEN "name"
    ELSE "unbound"

\* C7: every parameter is bound from the first applicable source among:
\* the positional argument at its position, the keyword argument of its
\* name, the registry binding of its declared type, the registry binding
\* of its name; a parameter with no applicable source is left out.
C7_ResolutionOrder ==
    ret.op = "resolve" =>
        LET d == deps(ret.target)
            src(i) == SourceOf(d, ret.func, ret.func_args, ret.func_kwargs, i)
        IN  /\ DOMAIN ret.result =
                 {ret.func[i][1] : i \in {j \in 1..Len(ret.func) : src(j) # "unbound"}}
            /\ \A i \in 1..Len(ret.func) :
                 LET n == ret.func[i][1]
                 IN  /\ src(i) = "positional" => ret.result[n] = ret.func_args[i]
                     /\ src(i) = "keyword" => ret.result[n] = ret.func_kwargs[n]
                     /\ src(i) = "type" => ret.result[n] = d[ret.func[i][2]]
                     /\ src(i) = "name" => ret.result[n] = d[n]

\* f(x, y) called with one positional argument 1 and a registry binding
\* y = 2 is invoked as f(1, 2)
C7_Witness ==
    /\ ret.op = "resolve"
    /\ ret.func = << <<"x", Empty>>, <<"y", Empty>> >>
    /\ ret.func_args = <<1>>
    /\ DOMAIN ret.func_kwargs = {}
    /\ has_dependency(deps(1), "y") /\ deps(1)["y"] = 2
    /\ has_dependency(deps(1), "x") /\ deps(1)["x"] = 2
    /\ ret.result = [n \in {"x", "y"} |-> IF n = "x" THEN 1 ELSE 2]

\* C8: registries related by copy are independent: a register or update on
\* one provider leaves the lookups (has / get of every identifier) of every
\* other provider as they were.
C8_CopyIsolation ==
    [][\A p \in Providers :
          (ret'.op \in {"register", "update"} /\ ret'.target # p)
          => Lookups(p)' = Lookups(p)]_vars

\* r2 = r1.copy(...) was made, r2 was then mutated, and the two differ
C8_Witness ==
    /\ Len(prov) >= 2
    /\ ret.op \in {"register", "update"}
    /\ ret.target = 2
    /\ Lookups(1) # Lookups(2)

(***************************************************************************)
(* Claims about the middleware chain and the callbacks of a context.       *)
(***************************************************************************)
\* a log as the sequence of its <<event, id>> pairs
Trace(log) == [i \in 1..Len(log) |-> <<log[i].ev, log[i].id>>]

\* the events of the middlewares and the handler in a log
ChainOf(log) == SelectSeq(log, LAMBDA e : e.ev \in {"pre", "handler", "post"})

\* how many events of a kind a log holds
Count(log, ev) == Len(SelectSeq(log, LAMBDA e : e.ev = ev))

\* the trace of handler h wrapped by the middlewares order[1], order[2], ...
\* from the outermost to the innermost
Nested(order, h) ==
    [i \in 1..Len(order) |-> <<"pre", order[i]>>]
    \o << <<"handler", h>> >>
    \o [i \in 1..Len(order) |-> <<"post", order[Len(order) + 1 - i]>>]

Ascending(n) == [i \in 1..n |-> i]
Descending(n) == [i \in 1..n |-> n + 1 - i]

\* context c was made by app.transaction_context()
FromApp(c) == ctxs[c].handlers_iterator.kind = "app"

\* the call in the block of context c returned a value
Returned(c) ==
    /\ ctxs[c].pc \in {"called", "exited"}
    /\ ctxs[c].exc = None
    /\ ctxs[c].result # <<>>

C2_FirstRegisteredEnteredFirst ==
    \A c \in Contexts :
        (FromApp(c) /\ Returned(c))
        => Trace(SelectSeq(ctxs[c].log, LAMBDA e : e.ev = "pre")) =
             [i \in 1..Len(app.transaction_middlewares) |-> <<"pre", i>>]

\* the hooks' events around a trace, for the hooks a context has
Hooked(ctx, trace) ==
    (IF ctx.on_enter.present THEN << <<"enter", 0>> >> ELSE <<>>)
    \o trace
    \o (IF ctx.on_exit.present THEN << <<"exit", 0>> >> ELSE <<>>)

\* C3: a context configured with the list [m1, ..., mn] and hooks, in every
\* combination of sync and async hooks, middlewares, handler and driver in
\* which nothing is rejected and nothing raises, has run exactly: the enter
\* hook, m1-pre, ..., mn-pre, the handler, mn-post, ..., m1-post, the exit
\* hook; and the call returned the handler's value transformed by mn, ...,
\* and last by m1.
C3_ListOrder ==
    \A c \in Contexts :
        (/\ ~FromApp(c)
         /\ ctxs[c].pc = "exited"
         /\ ctxs[c].raised = None
         /\ ctxs[c].result # <<>>)
        => LET n == Len(ctxs[c].middlewares.own)
           IN  /\ Trace(ctxs[c].log) = Hooked(ctxs[c], Nested(Ascending(n), 0))
               /\ ctxs[c].result = Ascending(n) \o <<0>>

\* async hooks, an async m1 around a sync m2, a sync handler called by
\* call_async in an async with: all seven events in order
C3_Witness ==
    \E c \in Contexts :
        /\ ~FromApp(c)
        /\ ctxs[c].cm = "async with"
        /\ ctxs[c].on_enter.async /\ ctxs[c].on_exit.async
        /\ Len(ctxs[c].middlewares.own) = 2
        /\ ctxs[c].middlewares.own[1].async
        /\ ~ctxs[c].middlewares.own[2].async
        /\ ctxs[c].raised = None
        /\ ctxs[c].result = <<1, 2, 0>>
        /\ Trace(ctxs[c].log) =
             << <<"enter", 0>>, <<"pre", 1>>, <<"pre", 2>>, <<"handler", 0>>,
                <<"post", 2>>, <<"post", 1>>, <<"exit", 0>> >>

\* the with statement of context c is over: left, or ended by __enter__
Completed(c) == ctxs[c].pc \in {"exited", "failed"}

\* C4: when the handler called in a context raises, then once the with
\* statement (or the Application operation) has raised to its caller, the
\* exit hook of the context has been invoked exactly once, with the
\* handler's error, and the caller gets the handler's error.
C4_ExitHookSeesHandlerError ==
    \A c \in Contexts :
        (Completed(c) /\ ctxs[c].exc = "HandlerError")
        => /\ ctxs[c].raised = "HandlerError"
           /\ ctxs[c].on_exit.present =>
                /\ Count(ctxs[c].log, "exit") = 1
                /\ ctxs[c].log[Len(ctxs[c].log)] = Event("exit", 0, "HandlerError")

\* the exit hook is run: the context was entered and its exit hook is not
\* a coroutine function under the synchronous with
ExitHookRuns(ctx) ==
    /\ ctx.on_exit.present
    /\ ctx.pc = "exited"
    /\ ~(ctx.cm = "with" /\ ctx.on_exit.async)

\* the enter hook is run: it is not a coroutine function under the
\* synchronous with
EnterHookRuns(ctx) ==
    /\ ctx.on_enter.present
    /\ ~(ctx.cm = "with" /\ ctx.on_enter.async)

Registry(c) == heap[prov[ctxs[c].dependency_provider]]

HandlerIds(log) ==
    LET ran == SelectSeq(log, LAMBDA e : e.ev = "handler")
    IN  [i \in 1..Len(ran) |-> ran[i].id]

\* the ids of the handlers of an alias in lookup order, from the application
LookupIds(alias) ==
    LET fns == iterate_handlers_for(modules, "app", alias)
    IN  [i \in 1..Len(fns) |-> fns[i].id]

\* C10: once a publish through the application is over, the handlers that
\* ran are those of the alias in lookup order: the module's own handlers in
\* registration order, then those of each submodule in inclusion order,
\* recursively.
C10_PublishInLookupOrder ==
    \A c \in Contexts :
        (FromApp(c) /\ Completed(c))
        => HandlerIds(ctxs[c].log) = LookupIds("SampleEvent")

(***************************************************************************)
(* Claims about the rejection of calls that mix sync and async.            *)
(***************************************************************************)
\* some synchronous middleware of the list (outermost first) directly wraps
\* an asynchronous continuation: the next middleware, or func for the last
SyncWrapsAsync(mws, func) ==
    \E i \in 1..Len(mws) :
        /\ ~mws[i].async
        /\ IF i = Len(mws) THEN func.async ELSE mws[i + 1].async

\* some middleware of the list is a coroutine function
SomeAsync(mws) == \E i \in 1..Len(mws) : mws[i].async

\* the context the last operation was on, after the step
Target == ctxs[ret.target]

\* C13: call_async(func) on a context, in the block of a with statement or
\* through Application.call_async, raises TypeError if and only if some
\* synchronous middleware directly wraps an asynchronous continuation; when
\* it does, no middleware body and no handler body has run, and when it does
\* not, the chain has run (an asynchronous middleware around a synchronous
\* continuation included).
C13_SyncAroundAsyncRejected ==
    [][\A func \in HandlerFns :
          /\ \A c \in Contexts :
                CallAsync(c, func) =>
                    /\ (Target.exc = "TypeError")'
                         = SyncWrapsAsync(middlewares_of(ctxs[c]), func)
                    /\ IF (Target.exc = "TypeError")'
                       THEN ChainOf(Target.log)' = ChainOf(ctxs[c].log)
                       ELSE ChainOf(Target.log)' # <<>>
          /\ (AppCallAsync(func) /\ (Target.pc # "failed")') =>
                /\ (Target.exc = "TypeError")'
                     = SyncWrapsAsync(app.transaction_middlewares, func)
                /\ IF (Target.exc = "TypeError")'
                   THEN ChainOf(Target.log)' = <<>>
                   ELSE ChainOf(Target.log)' # <<>>]_vars

\* call_async was rejected for an asynchronous middleware around a
\* synchronous one around a coroutine function, and nothing of the chain ran
C13_Witness ==
    /\ ret.op = "call_async"
    /\ ret.exc = "TypeError"
    /\ Len(middlewares_of(Target)) = 2
    /\ middlewares_of(Target)[1].async
    /\ ~middlewares_of(Target)[2].async
    /\ middlewares_of(Target)[1].behav = "wrap"
    /\ middlewares_of(Target)[2].behav = "wrap"
    /\ ChainOf(Target.log) = <<>>

\* C14: call(func) on a context, in the block of a with statement or through
\* Application.call, raises TypeError when func is a coroutine function or
\* some middleware is one; and whenever it raises TypeError, no middleware
\* body and no handler body has run.
C14_SyncCallRejectsAsync ==
    [][\A func \in HandlerFns :
          /\ \A c \in Contexts :
                Call(c, func) =>
                    /\ (func.async \/ SomeAsync(middlewares_of(ctxs[c])))
                         => (Target.exc = "TypeError")'
                    /\ (Target.exc = "TypeError")'
                         => ChainOf(Target.log)' = ChainOf(ctxs[c].log)
          /\ (AppCall(func) /\ (Target.pc # "failed")') =>
                /\ (func.async \/ SomeAsync(app.transaction_middlewares))
                     => (Target.exc = "TypeError")'
                /\ (Target.exc = "TypeError")' => ChainOf(Target.log)' = <<>>]_vars

\* call was rejected for a synchronous function behind an asynchronous
\* middleware that is wrapped by a synchronous one, and nothing ran
C14_Witness ==
    /\ ret.op = "call"
    /\ ret.exc = "TypeError"
    /\ Len(middlewares_of(Target)) = 2
    /\ ~middlewares_of(Target)[1].async
    /\ middlewares_of(Target)[2].async
    /\ Target.log = <<>>

(***************************************************************************)
(* Claims about the result composer.                                       *)
(***************************************************************************)
\* the results handed to the last compose that are not None, in order
Composed == SelectSeq(kwargs_values(ret.kwargs), LAMBDA v : v.t # "NoneType")

\* the operators, in the order of the claim, whose reduction over the values
\* raises no TypeError
Reducing(values) ==
    {i \in 1..3 : reduce(<<"additive_merge", "or_", "add">>[i], values).exc = None}

C19_ComposerIgnoresNone ==
    ret.op = "compose"
    => /\ Len(Composed) = 0 => (ret.exc = None /\ ret.result = PyNone)
       /\ Len(Composed) = 1 => (ret.exc = None /\ ret.result = Composed[1])

\* compose of None, "x", None returned "x"
C19_Witness ==
    /\ ret.op = "compose"
    /\ kwargs_values(ret.kwargs) = <<PyNone, PyStr("x"), PyNone>>
    /\ ret.exc = None
    /\ ret.result = PyStr("x")

C15_ExecuteAsyncThroughApplication ==
    (/\ ret.op = "Application.execute_async"
     /\ app.on_enter = [present |-> TRUE, async |-> TRUE, behav |-> "ok"]
     /\ app.on_exit = [present |-> TRUE, async |-> TRUE, behav |-> "ok"]
     /\ app.transaction_middlewares = <<Middleware(1, [async |-> TRUE, behav |-> "wrap"])>>
     /\ iterate_handlers_for(modules, "app", "SampleEvent")
          = <<Function(2, TRUE, "ok", <<>>)>>)
    => /\ ret.exc = None
       /\ ret.result = <<PyInt(1)>>
       /\ Trace(Target.log) =
            << <<"enter", 0>>, <<"pre", 1>>, <<"handler", 2>>, <<"post", 1>>,
               <<"exit", 0>> >>

\* the message of the last execute on the target was an instance of a
\* Message class (publish binds it in the registry)
ExecutedInstance ==
    /\ has_dependency(Registry(ret.target), "message")
    /\ get_dependency(Registry(ret.target), "message") = id_message(MessageList[1])

\* the last operation was an execute that returned, on a context whose
\* iterator yields pairwise different handlers
ExecuteReturned ==
    /\ ret.op \in {"execute", "execute_async", "Application.execute",
                   "Application.execute_async"}
    /\ ret.exc = None
    /\ LET items == handlers_iterator(Target, modules, "SampleEvent")
       IN  \A i, j \in 1..Len(items) : i # j => items[i] # items[j]

\* the values the handlers invoked in the target returned, in the order of
\* their invocation, as keyword arguments
Invoked ==
    LET ids == HandlerIds(Target.log)
    IN  [i \in 1..Len(ids) |-> <<KeywordNames[i], returns(ids[i])>>]

\* C17: an execute that returns without a composer override returns the
\* composition, by the default composer, of the results of all the handlers
\* invoked, in the order of invocation, whichever modules they come from.
C17_ExecuteComposesAll ==
    (/\ ExecuteReturned
     /\ class_of(IF ExecutedInstance THEN MessageList[1] ELSE MessageList[2])
          \notin DOMAIN composers_of(Target)
     /\ compose(None, Invoked).exc = None)
    => ret.result = <<compose(None, Invoked).value>>

\* C20: an execute that returns for a message whose type has a composer
\* override returns what the override returns, and the override was given
\* the results of all the handlers invoked, None included, one value for
\* every handler, in the order of invocation.
C20_OverrideGetsRawResults ==
    (/\ ExecuteReturned
     /\ ExecutedInstance
     /\ "SampleEvent" \in DOMAIN composers_of(Target))
    => /\ DOMAIN ret.result[1] = {"composer", "kwargs"}
       /\ ret.result[1].composer = composers_of(Target)["SampleEvent"].id
       /\ kwargs_values(ret.result[1].kwargs) = kwargs_values(Invoked)

(***************************************************************************)
(* Claims about the loop of publish.                                       *)
(***************************************************************************)
\* the handlers the iterator of context c yields for the published alias
ItemsOf(c) == handlers_iterator(ctxs[c], modules, "SampleEvent")

\* C11: in a context that has published, the handlers that ran are the
\* first of the iterator, in its order; and when the k-th of them is one
\* that raises, it is the last that ran, the publish raised its error and
\* returned no result map.
C11_PublishFailFast ==
    \A c \in Contexts :
        ctxs[c].pc \in {"called", "exited"} =>
            LET ids == HandlerIds(ctxs[c].log)
            IN  /\ Len(ids) <= Len(ItemsOf(c))
                /\ \A k \in 1..Len(ids) :
                      /\ ids[k] = ItemsOf(c)[k].fn.id
                      /\ ItemsOf(c)[k].fn.behav = "raise" =>
                            /\ Len(ids) = k
                            /\ ctxs[c].exc = "HandlerError"
                            /\ ctxs[c].result = <<>>

\* of two handlers behind a middleware the first raised: it ran, the second
\* did not, and publish raised
C11_Witness ==
    \E c \in Contexts :
        /\ Len(ItemsOf(c)) = 2
        /\ ItemsOf(c)[1].fn.behav = "raise"
        /\ Len(middlewares_of(ctxs[c])) = 1
        /\ ctxs[c].current_handler = ItemsOf(c)[1]
        /\ Trace(ctxs[c].log) = << <<"pre", 1>>, <<"handler", ItemsOf(c)[1].fn.id>> >>
        /\ ctxs[c].exc = "HandlerError"
        /\ ctxs[c].raised = "HandlerError"

\* what one handler behind the middlewares mws (outermost first) leaves in
\* the log when nothing raises: the pre-call code of each middleware, the
\* handler from its start, over its suspension, to its end, the post-call
\* code of each middleware
FrameOf(mws, h) ==
    [i \in 1..Len(mws) |-> <<"pre", mws[i].id>>]
    \o << <<"handler", h.fn.id>> >>
    \o (IF h.fn.behav = "suspend"
        THEN << <<"suspended", h.fn.id>>, <<"resumed", h.fn.id>> >> ELSE <<>>)
    \o [i \in 1..Len(mws) |-> <<"post", mws[Len(mws) + 1 - i].id>>]

\* the frames of the first n handlers of items, one after the other
RECURSIVE Frames(_, _, _)
Frames(mws, items, n) ==
    IF n = 0 THEN <<>> ELSE Frames(mws, items, n - 1) \o FrameOf(mws, items[n])

\* the first n items without repetitions, in the order of first occurrence
RECURSIVE Distinct(_, _)
Distinct(items, n) == IF n = 0 THEN <<>> ELSE add(Distinct(items, n - 1), items[n])

\* C16: when publish_async has run in a context, the log is made of the
\* whole frames of the first handlers of the iterator, one frame after the
\* other in the iterator's order: no middleware or handler of a later
\* handler starts before the earlier handler, suspended or not, is over;
\* and when publish_async returned, every handler has run and the result
\* map lists the handlers in that order.
C16_PublishAsyncSequential ==
    ret.op = "publish_async" =>
        LET c == ret.target
            mws == middlewares_of(Target)
            trace == Trace(Target.log)
        IN  /\ \E n \in 0..Len(ItemsOf(c)) : trace = Frames(mws, ItemsOf(c), n)
            /\ ret.exc = None =>
                  /\ trace = Frames(mws, ItemsOf(c), Len(ItemsOf(c)))
                  /\ [i \in 1..Len(ret.result) |-> ret.result[i].handler]
                       = Distinct(ItemsOf(c), Len(ItemsOf(c)))

\* two coroutine handlers with a suspension point behind an asynchronous
\* middleware: the second started after the first was resumed and left
C16_Witness ==
    \E c \in Contexts :
        /\ ret = [op |-> "publish_async", target |-> c, result |-> ctxs[c].result,
                  exc |-> None]
        /\ Len(ret.result) = 2
        /\ Trace(ctxs[c].log) =
             << <<"pre", 1>>, <<"handler", 1>>, <<"suspended", 1>>, <<"resumed", 1>>,
                <<"post", 1>>,
                <<"pre", 1>>, <<"handler", 2>>, <<"suspended", 2>>, <<"resumed", 2>>,
                <<"post", 1>> >>

(***************************************************************************)
(* Claims about the errors of the composer.                                *)
(***************************************************************************)
\* the operators the last compose had to try
Attempted == IF ret.compose_operator # None THEN <<ret.compose_operator>> ELSE Operators

\* C21: when compose is handed two or more results that are not None and
\* the reduction by every operator it tries raises a TypeError, it raises a
\* CompositionError whose arguments name the operators it tried.
C21_CompositionErrorNamesOperators ==
    (/\ ret.op = "compose"
     /\ Len(Composed) >= 2
     /\ \A i \in 1..Len(Attempted) : reduce(Attempted[i], Composed).exc = "TypeError")
    => /\ ret.exc = "CompositionError"
       /\ \E k \in 1..Len(ret.args) : ret.args[k] = Attempted

(***************************************************************************)
(* Claims about asynchronous hooks under the synchronous driver.           *)
(***************************************************************************)
\* hook is set and is a coroutine function
AsyncHook(hook) == hook.present /\ iscoroutinefunction(hook)

\* C22: a context driven synchronously (with statement, and so begin and
\* end) whose enter hook is asynchronous fails to enter with a TypeError,
\* and one entered whose exit hook is asynchronous fails to leave with a
\* TypeError: the class of error that call raises for an asynchronous
\* handler or middleware.
C22_AsyncHookTypeError ==
    \A c \in Contexts :
        ctxs[c].cm = "with" =>
            /\ AsyncHook(ctxs[c].on_enter) =>
                  (ctxs[c].pc = "failed" /\ ctxs[c].raised = "TypeError")
            /\ (ctxs[c].pc = "exited" /\ AsyncHook(ctxs[c].on_exit)) =>
                  ctxs[c].raised = "TypeError"

\* C23: in a context driven synchronously whose exit hook is asynchronous
\* and whose enter hook is synchronous or absent, the statement fails
\* before any handler body has run: once it is over, it has raised and the
\* log holds no handler.
C23_AsyncExitHookFailsFirst ==
    \A c \in Contexts :
        (/\ ctxs[c].cm = "with"
         /\ AsyncHook(ctxs[c].on_exit)
         /\ ~AsyncHook(ctxs[c].on_enter)
         /\ ctxs[c].pc \in {"called", "exited"})
        => /\ Count(ctxs[c].log, "handler") = 0
           /\ ctxs[c].pc = "exited" => ctxs[c].raised # None

(***************************************************************************)
(* Claims about calls by alias.                                            *)
(***************************************************************************)
\* C24: Application.call and Application.call_async with an alias for
\* which neither the application nor any module included in it (directly
\* or through other modules) has a handler raise HandlerNotFoundError.
C24_UnknownAliasNotFound ==
    [][\A alias \in CallAliases :
          (/\ AppCallAlias(alias) \/ AppCallAsyncAlias(alias)
           /\ iterate_handlers_for(modules, "app", alias) = <<>>)
          => ret'.exc = "HandlerNotFoundError"]_vars

(***************************************************************************)
(* Claims about update and copy.                                           *)
(***************************************************************************)
\* the type a value handed to update is registered under: the declared
\* type of an as_type wrapper, the class of a plain value (int)
RegisteredType(dep) == IF dep.typed THEN dep.a_type ELSE "int"

\* the bindings update(*args, **kwargs) is to make, in order: each
\* positional value under its type, then each named value under its name
\* and under its type
Bindings(args, kwargs) ==
    [k \in 1..Len(args) |-> <<RegisteredType(args[k]), args[k].value>>]
    \o [k \in 1..(2 * Len(kwargs)) |->
          LET kw == kwargs[(k + 1) \div 2]
          IN  IF k % 2 = 1 THEN <<kw[1], kw[2].value>>
              ELSE <<RegisteredType(kw[2]), kw[2].value>>]

\* dict after is dict before with the bindings b made in order: an
\* identifier of b is bound to the value of its last binding, every other
\* identifier is as before
Updated(before, after, b) ==
    \A i \in Idents :
        LET ks == {k \in 1..Len(b) : b[k][1] = i}
        IN  IF ks # {}
            THEN /\ has_dependency(after, i)
                 /\ get_dependency(after, i) =
                      b[CHOOSE k \in ks : \A j \in ks : j <= k][2]
            ELSE /\ has_dependency(after, i) = has_dependency(before, i)
                 /\ get_dependency(after, i) = get_dependency(before, i)

\* C25: the provider made by r.copy(*args, **kwargs) has, for the names
\* and types of the overrides, the overriding values, and for every other
\* identifier the lookups (has / get) of r, so that without overrides it
\* is lookup-equivalent to r; it is what update(*args, **kwargs) makes of
\* r's bindings; and r's own bindings are as they were.
C25_CopyThenUpdate ==
    [][ret'.op = "copy" =>
          LET r == heap[prov[ret'.parent]]
              made == heap'[prov'[ret'.target]]
          IN  /\ Updated(r, made, Bindings(ret'.args, ret'.kwargs))
              /\ (ret'.args = <<>> /\ ret'.kwargs = <<>>) =>
                    \A i \in Idents :
                        /\ has_dependency(made, i) = has_dependency(r, i)
                        /\ get_dependency(made, i) = get_dependency(r, i)
              /\ made = update(r, ret'.args, ret'.kwargs)
              /\ heap'[prov'[ret'.parent]] = r]_vars

\* r binds x, y and int to 1; r.copy(x=2) binds x and int to 2 and y to 1,
\* and r is as it was
C25_Witness ==
    /\ ret.op = "copy"
    /\ ret.args = <<>>
    /\ ret.kwargs = << <<"x", Plain(2)>> >>
    /\ deps(ret.parent) = [i \in {"x", "y", "int"} |-> 1]
    /\ deps(ret.target) = [i \in {"x", "y", "int"} |-> IF i = "y" THEN 1 ELSE 2]

\* C26: update(*args, **kwargs) binds each positional value under its
\* type, then each named value under its name and its type, in the order
\* given, a later binding replacing an earlier one for the same
\* identifier; the type of as_type(v, T) is T, and the binding under the
\* class of v (int) is neither made nor changed by it.
C26_UpdateBindings ==
    [][ret'.op = "update" =>
          Updated(heap[prov[ret'.target]], heap'[prov'[ret'.target]],
                  Bindings(ret'.args, ret'.kwargs))]_vars

\* update(2, as_type(2, Num), x=as_type(1, Num), y=1): int is bound by
\* the positional 2 and then by y, Num by the positional wrapper and then
\* by x, so that all four identifiers are bound to 1
C26_Witness ==
    /\ ret.op = "update"
    /\ ret.args = <<Plain(2), as_type(2, "Num")>>
    /\ ret.kwargs = << <<"x", as_type(1, "Num")>>, <<"y", Plain(1)>> >>
    /\ deps(1) = [i \in {"x", "y", "int", "Num"} |-> 1]

(***************************************************************************)
(* Claims about the ctx parameter.                                         *)
(***************************************************************************)
\* parameter i of signature sig gets no positional and no keyword argument
Unsupplied(sig, i, args, kwargs) == i > Len(args) /\ sig[i][1] \notin DOMAIN kwargs

\* parameter i of sig is named ctx or annotated with TransactionContext
CtxParam(sig, i) == sig[i][1] = "ctx" \/ sig[i][2] = "TransactionContext"

\* parameter i of sig is annotated with TransactionContext, or is named ctx
\* and not annotated with a type that registry d binds
CtxParamIn(d, sig, i) ==
    \/ sig[i][2] = "TransactionContext"
    \/ /\ sig[i][1] = "ctx"
       /\ sig[i][2] = Empty \/ ~has_dependency(d, sig[i][2])

\* the function that the last call or publish on the target invoked, and
\* the arguments it was invoked with: those of the call, or the published
\* message, which publish binds under "message", when it is an instance
Called ==
    IF ret.op = "call"
    THEN [func |-> ret.func, args |-> ret.args, kwargs |-> ret.kwargs]
    ELSE [func |-> ItemsOf(ret.target)[1].fn,
          args |-> IF Registry(ret.target)["message"] = id_message(MessageList[1])
                   THEN <<id_message(MessageList[1])>> ELSE <<>>,
          kwargs |-> EmptyDict]

\* the last operation was a call, or a publish that found a handler
Calling ==
    \/ ret.op = "call"
    \/ ret.op = "publish" /\ ItemsOf(ret.target) # <<>>

\* C27 as stated: the function that a context calls, and a handler it
\* publishes to, gets that very context for every parameter named ctx or
\* annotated with TransactionContext that the caller does not supply,
\* whatever the registry bound before.
C27_CtxParamIsSelf ==
    Calling =>
        \A i \in 1..Len(Called.func.sig) :
            (/\ CtxParam(Called.func.sig, i)
             /\ Unsupplied(Called.func.sig, i, Called.args, Called.kwargs))
            => /\ Called.func.sig[i][1] \in DOMAIN Target.resolved_kwargs
               /\ Target.resolved_kwargs[Called.func.sig[i][1]] = id_ctx(ret.target)

\* C27 amended: the same for every unsupplied parameter annotated with
\* TransactionContext, and for every unsupplied parameter named ctx that
\* is unannotated or annotated with a type the registry does not bind; a
\* parameter named ctx whose annotation is a type the registry binds gets
\* the value bound to that type.
C27_CtxParamUnlessTyped ==
    Calling =>
        \A i \in 1..Len(Called.func.sig) :
            (/\ CtxParam(Called.func.sig, i)
             /\ Unsupplied(Called.func.sig, i, Called.args, Called.kwargs))
            => /\ Called.func.sig[i][1] \in DOMAIN Target.resolved_kwargs
               /\ Target.resolved_kwargs[Called.func.sig[i][1]] =
                    IF CtxParamIn(Registry(ret.target), Called.func.sig, i)
                    THEN id_ctx(ret.target)
                    ELSE Registry(ret.target)[Called.func.sig[i][2]]

\* a context whose registry binds int has called f(x: TransactionContext,
\* ctx) with no arguments: both parameters are the context, and so are the
\* bindings of ctx and TransactionContext in its registry
C27_Witness ==
    /\ ret.op = "call"
    /\ ret.exc = None
    /\ ret.func.sig = << <<"x", "TransactionContext">>, <<"ctx", Empty>> >>
    /\ ret.args = <<>>
    /\ ret.kwargs = EmptyDict
    /\ Target.resolved_kwargs = [n \in SelfNames |-> id_ctx(ret.target)]
    /\ Registry(ret.target) =
         [i \in SelfIdents |-> IF i = "int" THEN 1 ELSE id_ctx(ret.target)]

(***************************************************************************)
(* Claims about parameters that nothing binds.                             *)
(***************************************************************************)
\* parameter i of signature func has no positional argument, no keyword
\* argument, no binding of its type and no binding of its name in d
Unresolvable(d, func, func_args, func_kwargs, i) ==
    /\ Unsupplied(func, i, func_args, func_kwargs)
    /\ func[i][2] = Empty \/ ~has_dependency(d, func[i][2])
    /\ ~has_dependency(d, func[i][1])

\* C28: resolve_func_params returns an argument map for every call: a
\* parameter that nothing binds is not in the map, every other parameter
\* of the function is, before and after such a parameter alike, and the
\* registry is as it was.
C28_UnresolvableLeftOut ==
    [][ret'.op = "resolve" =>
          /\ \A i \in 1..Len(ret'.func) :
                ret'.func[i][1] \in DOMAIN ret'.result
                  <=> ~Unresolvable(heap[prov[ret'.target]], ret'.func,
                                    ret'.func_args, ret'.func_kwargs, i)
          /\ heap' = heap
          /\ prov' = prov]_vars

\* f(x, y: int) resolved with nothing passed in a registry that binds
\* only int: the map holds y alone
C28_Witness ==
    /\ ret.op = "resolve"
    /\ ret.func = << <<"x", Empty>>, <<"y", "int">> >>
    /\ ret.func_args = <<>>
    /\ DOMAIN ret.func_kwargs = {}
    /\ DOMAIN deps(ret.target) = {"int"}
    /\ DOMAIN ret.result = {"y"}
    /\ ret.result["y"] = deps(ret.target)["int"]

(***************************************************************************)
(* Claims about lato.testing.override.                                     *)
(***************************************************************************)
\* C29: inside the block of with override(app, **overrides) the
\* application, and a context it makes, bind every overridden name and
\* type to the overriding value and everything else as the application
\* did; when the block is left without an error, the application has its
\* original provider, with the original bindings, and its original
\* transaction_context again.
C29_OverrideRestored ==
    [][ret'.op = "override" =>
          /\ Updated(deps(app.dependency_provider), ret'.inside,
                     Bindings(<<>>, ret'.kwargs))
          /\ ret'.exc = None =>
                /\ app'.dependency_provider = app.dependency_provider
                /\ app'.transaction_context = app.transaction_context
                /\ heap'[prov'[app'.dependency_provider]] = deps(app.dependency_provider)]_vars

\* the application binds x to 1; inside override(app, x=2) it read x as 2,
\* and afterwards it binds x to 1 through its original method and provider
C29_Witness ==
    /\ ret.op = "override"
    /\ ret.exc = None
    /\ ret.block = [op |-> "getitem", identifier |-> "x"]
    /\ ret.kwargs = << <<"x", Plain(2)>> >>
    /\ has_dependency(ret.inside, "x")
    /\ get_dependency(ret.inside, "x") = 2
    /\ app = Application(1)
    /\ has_dependency(deps(app.dependency_provider), "x")
    /\ get_dependency(deps(app.dependency_provider), "x") = 1

(***************************************************************************)
(* Claims about call_async on synchronous functions.                       *)
(***************************************************************************)
\* C30: await ctx.call_async(func) with a synchronous func on a context
\* whose middlewares are all synchronous ends as ctx.call(func) would on
\* the same context: the same value returned or error raised, the same
\* middleware and handler events added to the log in the same order, the
\* same resolved arguments and the same registry afterwards.
C30_CallAsyncLikeCall ==
    [][\A c \in Contexts, func \in HandlerFns :
          (/\ CallAsync(c, func)
           /\ ~iscoroutinefunction(func)
           /\ ~SomeAsync(middlewares_of(ctxs[c])))
          => \E r \in {call(world(c), middlewares_of(ctxs[c]), c, func, <<>>,
                             EmptyDict)} :
                /\ ret'.result = r.result
                /\ ret'.exc = r.exc
                /\ ctxs'[c].log = r.w.ctx.log
                /\ ctxs'[c].resolved_kwargs = r.w.ctx.resolved_kwargs
                /\ heap'[prov'[ctxs'[c].dependency_provider]] = r.w.d]_vars

\* call_async of a synchronous function behind two synchronous
\* middlewares returned its value past both
C30_Witness ==
    /\ ret.op = "call_async"
    /\ ret.exc = None
    /\ ret.result = <<1, 2, 0>>
    /\ Len(middlewares_of(Target)) = 2
    /\ ~SomeAsync(middlewares_of(Target))
    /\ Trace(ChainOf(Target.log)) = Nested(Ascending(2), 0)

(***************************************************************************)
(* Claims about the handler a call by alias invokes.                       *)
(***************************************************************************)
\* C36: Application.call and Application.call_async with an alias that has
\* handlers run one handler body, that of the first handler in lookup
\* order, and return its value, however many handlers the application and
\* its submodules have for the alias.
C36_AliasCallsFirstHandler ==
    [][\A alias \in CallAliases :
          (/\ AppCallAlias(alias) \/ AppCallAsyncAlias(alias)
           /\ iterate_handlers_for(modules, "app", alias) # <<>>)
          => /\ ret'.target = Len(ctxs')
             /\ HandlerIds(ctxs'[ret'.target].log) = <<LookupIds(alias)[1]>>
             /\ ret'.result = <<LookupIds(alias)[1]>>
             /\ ret'.exc = None]_vars

\* the application has two handlers of its own for the alias and its
\* submodules two more; the call ran the application's first handler only
C36_Witness ==
    /\ ret.op \in {"Application.call", "Application.call_async"}
    /\ ret.target = 1
    /\ Len(LookupIds("SampleEvent")) = 4
    /\ Len(modules["app"].handlers["SampleEvent"]) = 2
    /\ LookupIds("SampleEvent")[1] = 2
    /\ HandlerIds(ctxs[1].log) = <<2>>
    /\ ret.result = <<2>>

(***************************************************************************)
(* Claims about lato.testing.override around a block that raises.          *)
(***************************************************************************)
\* C37: when the block of with override(app, **overrides) raises, the
\* application has its original provider and its original
\* transaction_context again once the error has left the with statement,
\* as after a block that returned.
C37_OverrideRestoredOnError ==
    [][(ret'.op = "override" /\ ret'.exc # None) =>
          /\ app'.dependency_provider = app.dependency_provider
          /\ app'.transaction_context = app.transaction_context]_vars

(***************************************************************************)
(* Claims about arguments that no parameter takes.                         *)
(***************************************************************************)
\* the names of the parameters of a signature
Declared(sig) == {sig[i][1] : i \in 1..Len(sig)}

\* C38: the function that a context calls, and a handler it publishes to,
\* is invoked with keyword arguments for its declared parameters only: a
\* positional argument takes the parameter at its position if there is
\* one, a keyword argument the parameter of its name unless a positional
\* argument took it, and positional arguments beyond the parameters and
\* keyword arguments naming no parameter go nowhere.  They raise no
\* error: the call fails with TypeError only when a declared parameter is
\* neither supplied nor bound, and otherwise the function runs.
C38_ExtraArgumentsDiscarded ==
    Calling =>
        LET sig == Called.func.sig
            given == Target.resolved_kwargs
        IN  /\ DOMAIN given \subseteq Declared(sig)
            /\ \A i \in 1..Len(sig) :
                  /\ i <= Len(Called.args) => given[sig[i][1]] = Called.args[i]
                  /\ (i > Len(Called.args) /\ sig[i][1] \in DOMAIN Called.kwargs)
                        => given[sig[i][1]] = Called.kwargs[sig[i][1]]
            /\ IF \E i \in 1..Len(sig) :
                      Unresolvable(Registry(ret.target), sig, Called.args,
                                   Called.kwargs, i)
               THEN ret.exc = "TypeError" /\ HandlerIds(Target.log) = <<>>
               ELSE ret.exc = None /\ HandlerIds(Target.log) = <<Called.func.id>>

\* f(x) was called with two positional arguments and the keyword argument
\* ctx: it ran with x alone, the first positional argument
C38_Witness ==
    /\ ret.op = "call"
    /\ ret.func.sig = << <<"x", Empty>> >>
    /\ ret.args = <<1, 2>>
    /\ DOMAIN ret.kwargs = {"ctx"}
    /\ Target.resolved_kwargs = [n \in {"x"} |-> 1]
    /\ ret.exc = None
    /\ HandlerIds(Target.log) = <<1>>

(***************************************************************************)
(* Claims about the composition of integers.                               *)
(***************************************************************************)
\* bit k of the non-negative integer n, and the bits of the composed values
Bit(n, k) == (n \div 2 ^ k) % 2
Bits == 0..3

\* the sum of the integers values[1..n]
RECURSIVE Sum(_, _)
Sum(values, n) == IF n = 0 THEN 0 ELSE Sum(values, n - 1) + values[n].n

Least(S) == CHOOSE i \in S : \A j \in S : i <= j

\* the ids of the middlewares whose code ran, in the order they ran
PreIds(log) ==
    LET ran == SelectSeq(log, LAMBDA e : e.ev = "pre")
    IN  [i \in 1..Len(ran) |-> ran[i].id]

\* C35: after ctx.call(func) through middlewares that each pass the result
\* of call_next on, return their own value with or without calling
\* call_next, or raise: the middlewares ran from the outermost inwards up
\* to the first that does not call call_next, no middleware behind it and
\* no function ran; unless a middleware or the function raised, call
\* returned what the outermost middleware returned, which holds the marks
\* of the middlewares up to the first that returns its own value, and the
\* function's value only when there is none.
C35_CallReturnsOutermost ==
    (ret.op = "call" /\ ret.args = <<>>) =>
        LET mws == middlewares_of(Target)
            Stops == {i \in 1..Len(mws) : mws[i].behav \in {"return", "raise"}}
            stop == IF Stops = {} THEN Len(mws) + 1 ELSE Least(Stops)
            Keeps == {i \in 1..Len(mws) :
                        i <= stop /\ mws[i].behav \in {"return", "drop"}}
            failing == IF stop <= Len(mws) THEN mws[stop].behav = "raise"
                       ELSE ret.func.behav = "raise"
        IN  /\ PreIds(Target.log) =
                  Ascending(IF stop <= Len(mws) THEN stop ELSE Len(mws))
            /\ HandlerIds(Target.log) =
                  IF stop <= Len(mws) THEN <<>> ELSE <<ret.func.id>>
            /\ failing => ret.exc # None
            /\ ~failing =>
                  /\ ret.exc = None
                  /\ ret.result = IF Keeps # {} THEN Ascending(Least(Keeps))
                                  ELSE Ascending(Len(mws)) \o <<ret.func.id>>

\* behind a middleware that passes the result on, a middleware returned
\* without calling call_next: the function did not run and call returned
\* the inner middleware's value with the mark of the outer one
C35_Witness ==
    /\ ret.op = "call"
    /\ ret.func \in ShortFns
    /\ Len(middlewares_of(Target)) = 2
    /\ middlewares_of(Target)[1].behav = "wrap"
    /\ middlewares_of(Target)[2].behav = "return"
    /\ Trace(Target.log) = << <<"pre", 1>>, <<"pre", 2>>, <<"post", 1>> >>
    /\ ret.exc = None
    /\ ret.result = <<1, 2>>

(***************************************************************************)
(* Claims about handlers that emit.                                        *)
(***************************************************************************)
\* the message whose publish invoked the handler function with this id:
\* the emitted one for a handler of it, else the one the block published
PublishedTo(id) ==
    IF \E f \in NestedFns : f.id = id THEN Emitted ELSE ret.message

\* the places of the log where a handler read current_action: just after
\* it started (ev "handler") or after its emit returned (ev "handler_end")
Reads(log, ev) ==
    {p \in 1..Len(log) :
        /\ log[p].ev = ev
        /\ p + 2 <= Len(log)
        /\ log[p + 1].ev = "message"
        /\ log[p + 2].ev = "current_handler"}

\* C31: every handler that ran in a publish of the block or in the publish
\* of an emit read, as it started, the message of that very publish as
\* the binding of "message": after an earlier handler of the same publish
\* emitted another message to handlers of its own too.
C31_MessageBoundPerHandler ==
    ret.op \in {"publish", "call"} =>
        \A p \in Reads(Target.log, "handler") :
            Target.log[p + 1].id = id_message(PublishedTo(Target.log[p].id))

\* the first handler of a published message instance read it, emitted
\* "sample_event", whose handler read that, and the second handler of the
\* publish read the message instance again
C31_Witness ==
    /\ ret.op = "publish"
    /\ ret.message = MessageList[1]
    /\ ret.exc = None
    /\ HandlerIds(Target.log) = <<1, 3, 2>>
    /\ \E p, q, r \in Reads(Target.log, "handler") :
          /\ p < q /\ q < r
          /\ Target.log[p + 1].id = id_message(MessageList[1])
          /\ Target.log[q + 1].id = id_message(Emitted)
          /\ Target.log[r + 1].id = id_message(MessageList[1])

\* C32: whenever a handler that a publish invoked reads ctx.current_action,
\* as it starts or after its own emit has returned, it reads the message of
\* the publish that invoked it, and itself as the handler.
C32_CurrentActionOfHandler ==
    ret.op \in {"publish", "call"} =>
        \A p \in Reads(Target.log, "handler") \cup Reads(Target.log, "handler_end") :
            /\ Target.log[p + 1].id = id_message(PublishedTo(Target.log[p].id))
            /\ Target.log[p + 2].id = Target.log[p].id

\* the starts and ends of handler bodies in a log, in order
Bodies(log) == Trace(SelectSeq(log, LAMBDA e : e.ev \in {"handler", "handler_end"}))

\* C33: Application.call of a function that emits "sample_event" on its
\* context returns, and in the one context of the call the enter callback
\* ran once, first, the exit callback once, last, and between them the
\* function started, every handler of "sample_event" ran, in lookup order,
\* and the function went on to its end.
C33_EmitRunsHandlersInside ==
    ret.op = "Application.call" =>
        /\ ret.exc = None
        /\ Bodies(Target.log) =
              << <<"handler", UseCase.id>> >>
              \o [i \in 1..Len(LookupIds("sample_event")) |->
                    <<"handler", LookupIds("sample_event")[i]>>]
              \o << <<"handler_end", UseCase.id>> >>
        /\ Count(Target.log, "enter") = IF Target.on_enter.present THEN 1 ELSE 0
        /\ Count(Target.log, "exit") = IF Target.on_exit.present THEN 1 ELSE 0
        /\ Target.on_enter.present => Target.log[1].ev = "enter"
        /\ Target.on_exit.present => Target.log[Len(Target.log)].ev = "exit"

\* how many times the code of the middleware with this id ran
Runs(log, id) == Cardinality({p \in 1..Len(PreIds(log)) : PreIds(log)[p] = id})

\* C34: after a call of a function that emits "sample_event" to n
\* handlers every middleware of the context ran 1 + n times, and after a
\* publish to n handlers that emit nothing, n times: once for every
\* handler body that ran.
C34_ChainPerHandler ==
    ret.op \in {"call", "Application.call", "publish"} =>
        \A i \in 1..Len(middlewares_of(Target)) :
            /\ Runs(Target.log, i) = Len(HandlerIds(Target.log))
            /\ ret.op # "publish" =>
                  Runs(Target.log, i) =
                    1 + Len(handlers_iterator(Target, modules, Emitted.alias))
            /\ (/\ ret.op = "publish"
                /\ \A k \in 1..Len(handlers_iterator(Target, modules, ret.message.alias)) :
                      handlers_iterator(Target, modules, ret.message.alias)[k].fn.behav
                        = "read")
               => Runs(Target.log, i) =
                    Len(handlers_iterator(Target, modules, ret.message.alias))
====
